---- MODULE Spec2Model ----
(***************************************************************************)
(* State-machine model of rpccaps: the Capability algebra                  *)
(* (data/capability.rs), the signed Reference / Authorization chain        *)
(* (data/reference.rs), the validation wrapper Unsafe<T>                   *)
(* (data/validate.rs), the length-prefixed BincodeCodec (rpc/codec.rs) and  *)
(* the Dispatch engine (rpc/dispatch.rs) with the Framed reader it takes   *)
(* the handler id from (rpc/codec.rs), Framed as a Stream and as a Sink    *)
(* (rpc/codec.rs), and Service::serve (rpc/service.rs) with the Service    *)
(* and Client that #[service] generates (rpccaps_derive/src/service.rs).   *)
(***************************************************************************)
EXTENDS Integers, Sequences, FiniteSets, TLC

\* ------------------------------------------------------------- bounds
\* Width, in bits, of the two bit fields of a Capability in the capability
\* specifications (the program uses u64; the operations are bitwise, so
\* every bit position behaves alike).
CapBits == 2

\* Width, in bits, of the capabilities carried by references.
RefBits == 1

\* Number of key pairs.
NKeys == 3

\* Number of object ids that serialize.
NIds == 1

\* Largest max_share a reference is created with.
MaxShare == 2

\* Number of direct alterations (field writes, as after deserialization of
\* an altered message) a reference undergoes.
MaxEdits == 1

\* Largest length of a message body (a String) given to the codec.
MaxItemLen == 1

\* Number of whole frames the codec buffer has room for.
MaxFrames == 2

\* Number of concurrent callers of Dispatch::dispatch.
NTasks == 2

\* Number of handler ids.
NHandlerIds == 2

\* Number of handler functions; each is registered at most once.
NFuncs == 2

\* Largest max_count a Dispatch is created with.
MaxCount == 1

\* Longest run of bytes that follows the id frame on a dispatched stream.
MaxTail == 3

\* Number of calls the client makes on its transport.
MaxCalls == 3

\* Largest argument the client passes to add and sub.
MaxArg == 2

VARIABLES
    capA,    \* Capability: the receiver (`self`) of the last operation
    capB,    \* Capability: the right-hand side of the last & / &= / is_subset
    capC,    \* Capability: the value the last operation produced
    capOp,   \* name of the last Capability operation
    capRes,  \* BOOLEAN: result of the last is_subset call
    r,       \* Option<Reference>: the reference built by Reference::new
    out,     \* Option<Reference>: what the last call returned, if it was subset or shrink
    call,    \* the last Reference operation: its name, arguments and result
    held,    \* Option<Certificate>: the certificate last taken out of r.certs
    edits,   \* number of direct alterations made to r so far
    wrapped, \* Option<T>: the field .0 of an Unsafe<T>, None once it was moved out
    seen,    \* Option<T>: what the holder of the Unsafe<T> last read through it
    unsafeCall, \* the last operation on the Unsafe<T> and its result
    buffer,  \* BytesMut: the buffer the codec encodes into and decodes from
    tail,    \* BytesMut: the bytes the last split_off took off the buffer
    codecCall, \* the last BincodeCodec operation and its result
    handlers, \* Dispatch::handlers: id -> Option<Handler>
    count,   \* Dispatch::count
    max_count, \* Dispatch::max_count: Option<u32>
    poisoned, \* whether the RwLock around handlers is poisoned
    tasks,   \* the callers of dispatch: where each one is in the function
    log,     \* per handler function: its registration and how often it was invoked
    dcall,   \* the last add or remove call and its result
    wire,    \* the bytes the peer wrote on the stream given to dispatch_stream
    rpos,    \* how many of them the AsyncRead has delivered
    fbuffer, \* Framed::buffer of the id decoder
    fcapacity, \* capacity of Framed::buffer
    handed,  \* Option: the id and the bytes the receiver passed to dispatch yields
    streamCall, \* dispatch_stream, or the consumer of a Framed stream: what the
                \* last poll returned and the last poll_read outcome
    yielded, \* what poll_next of a Framed stream has returned Ready with, in order
    sent,    \* the items start_send of a Framed sink has accepted, in order
    written, \* the bytes the AsyncWrite under a Framed sink has accepted, in order
    sinkCall, \* the last call on the Framed sink and its result
    svc,     \* the served Service: the field a, what is_alive() returns
    reqQ,    \* the mpsc channel from the client to the service
    respQ,   \* the mpsc channel from the service to the client
    cli,     \* the generated Client: where it is in its current call
    srv,     \* Service::serve: where it is in its loop
    hist     \* the calls made and their results, the requests dispatched and
             \* the responses passed to transport.send, each in order

capVars == <<capA, capB, capC, capOp, capRes>>

refVars == <<r, out, call, held, edits>>

unsafeVars == <<wrapped, seen, unsafeCall>>

codecVars == <<buffer, tail, codecCall>>

dispatchVars == <<handlers, count, max_count, poisoned, tasks, log, dcall>>

streamVars ==
    <<wire, rpos, fbuffer, fcapacity, handed, streamCall, yielded, sent, written,
      sinkCall>>

serviceVars == <<svc, reqQ, respQ, cli, srv, hist>>

vars == <<capA, capB, capC, capOp, capRes, r, out, call, held, edits,
          wrapped, seen, unsafeCall, buffer, tail, codecCall,
          handlers, count, max_count, poisoned, tasks, log, dcall,
          wire, rpos, fbuffer, fcapacity, handed, streamCall,
          yielded, sent, written, sinkCall,
          svc, reqQ, respQ, cli, srv, hist>>

\* What the Capability operations leave alone, and what the Reference
\* operations leave alone.
nonCapVars ==
    <<refVars, unsafeVars, codecVars, dispatchVars, streamVars, serviceVars>>
nonRefVars ==
    <<capVars, unsafeVars, codecVars, dispatchVars, streamVars, serviceVars>>
nonUnsafeVars ==
    <<capVars, refVars, codecVars, dispatchVars, streamVars, serviceVars>>
nonCodecVars ==
    <<capVars, refVars, unsafeVars, dispatchVars, streamVars, serviceVars>>
nonDispatchVars ==
    <<capVars, refVars, unsafeVars, codecVars, streamVars, serviceVars>>
nonStreamVars ==
    <<capVars, refVars, unsafeVars, codecVars, dispatchVars, serviceVars>>
nonServiceVars ==
    <<capVars, refVars, unsafeVars, codecVars, dispatchVars, streamVars>>

\* ------------------------------------------------------- machine words
RECURSIVE Pow2(_)
Pow2(n) == IF n = 0 THEN 1 ELSE 2 * Pow2(n - 1)

\* The values of an unsigned word of w bits.
Word(w) == 0 .. (Pow2(w) - 1)

\* Bitwise AND of two naturals (the `&` of u64).
RECURSIVE BitAnd(_, _)
BitAnd(x, y) ==
    IF x = 0 \/ y = 0 THEN 0
    ELSE (x % 2) * (y % 2) + 2 * BitAnd(x \div 2, y \div 2)

\* Wrapping subtraction on the modelled word (the `-` of u64).
WordSub(x, y) == (x - y + Pow2(CapBits)) % Pow2(CapBits)

\* The set of bit positions set in x: the reading of a bit field as a set.
Bits(x, w) == { i \in 0 .. (w - 1) : (x \div Pow2(i)) % 2 = 1 }

\* --------------------------------------------------------- Capability
\* struct Capability { actions, share }
Capability(w) == [actions : Word(w), share : Word(w)]

\* Capability::new
Capability_new(actions, share) ==
    [actions |-> actions, share |-> BitAnd(share, actions)]

\* Capability::empty
Capability_empty == [actions |-> 0, share |-> 0]

\* Capability::subset narrowing by the receiver's `actions` instead of its `share`.
Capability_subset_by_actions(self, actions, share) ==
    LET masked == BitAnd(share, actions)
    IN  [actions |-> BitAnd(self.actions, actions),
         share   |-> BitAnd(self.share, masked)]

\* Capability::subset
Capability_subset(self, actions, share) ==
    LET masked == BitAnd(share, actions)
    IN  [actions |-> BitAnd(self.share, actions),
         share   |-> BitAnd(self.share, masked)]

\* Capability::subset_inplace: the value of `self` after the call
Capability_subset_inplace(self, actions, share) ==
    [actions |-> BitAnd(self.share, actions),
     share   |-> BitAnd(self.share, share)]

\* Capability::is_valid
Capability_is_valid(self) == self.share = BitAnd(self.share, self.actions)

\* Capability::is_empty
Capability_is_empty(self) == self.actions = 0 /\ self.share = 0

\* Capability::is_subset comparing `actions` with the other's `share` and
\* `share` with the other's `actions`.
Capability_is_subset_crossed(self, cap) ==
    /\ WordSub(self.actions, BitAnd(cap.share, self.actions)) = 0
    /\ WordSub(self.share, BitAnd(cap.actions, self.share)) = 0

\* Capability::is_subset comparing `actions` with the other's `actions`.
Capability_is_subset_of_actions(self, cap) ==
    /\ WordSub(self.actions, BitAnd(cap.actions, self.actions)) = 0
    /\ WordSub(self.share, BitAnd(cap.share, self.share)) = 0

\* Capability::is_subset comparing the `share` fields alone.
Capability_is_subset_share_field(self, cap) ==
    WordSub(self.share, BitAnd(cap.share, self.share)) = 0

\* Capability::is_subset without the `& cap.actions` mask.
Capability_is_subset_share_only(self, cap) ==
    /\ WordSub(self.actions, BitAnd(cap.share, self.actions)) = 0
    /\ WordSub(self.share, BitAnd(cap.share, self.share)) = 0

\* Capability::is_subset
Capability_is_subset(self, cap) ==
    /\ WordSub(self.actions,
               BitAnd(BitAnd(cap.share, cap.actions), self.actions)) = 0
    /\ WordSub(self.share, BitAnd(cap.share, self.share)) = 0

\* An intersection that is the bitwise AND of the two fields, share masked by
\* the resulting actions.
Capability_bitand_componentwise(self, rhs) ==
    [actions |-> BitAnd(self.actions, rhs.actions),
     share |-> BitAnd(BitAnd(self.share, rhs.share),
                      BitAnd(self.actions, rhs.actions))]

\* impl BitAnd for Capability
Capability_bitand(self, rhs) == Capability_subset(self, rhs.actions, rhs.share)

\* impl BitAndAssign for Capability: the value of `self` after the call
Capability_bitand_assign(self, rhs) ==
    Capability_subset_inplace(self, rhs.actions, rhs.share)

\* ------------------------------------------------ keys and signatures
\* Option<T> is a sequence of length 0 (None) or 1 (Some(x)).
None == <<>>
Some(x) == <<x>>
IsSome(o) == Len(o) = 1
Unwrap(o) == o[1]

\* Signers 1..NKeys are key pairs.  Signer 0 stands for a signer whose
\* public key cannot be obtained: Sign::verifier returns Err for it.
Signers == 0 .. NKeys
PublicKeyOf(s) == [pub |-> s]
PublicKeys == { PublicKeyOf(s) : s \in 1 .. NKeys }

\* Sign::verifier(&signer): Result<Sign::Verifier, _>
Sign_verifier(signer) ==
    IF signer = 0 THEN [ok |-> FALSE] ELSE [ok |-> TRUE, v |-> PublicKeyOf(signer)]

\* Signer::try_sign(&buf) when it succeeds: a signature is valid for one
\* public key and one message.
Signer_sign(signer, buf) == [key |-> PublicKeyOf(signer), buf |-> buf]

\* Verifier::verify accepting any message signed with the key.
Verifier_verify_key_only(verifier, buf, signature) ==
    signature.key = verifier

\* Verifier::verify(&buf, &signature)
Verifier_verify(verifier, buf, signature) ==
    signature.key = verifier /\ signature.buf = buf

\* ------------------------------------------------------------ Reference
\* Ids 1..NIds serialize; id 0 stands for an Id whose Serialize fails.
Ids == 0 .. NIds

\* Authorization::new
Authorization_new(capability, subject) ==
    [capability |-> capability, subject |-> subject]

Authorizations ==
    { Authorization_new(c, k) : c \in Capability(RefBits), k \in PublicKeys }

\* enum CertData: the two payload variants
CertData_Reference(auth, id, issuer, max_share) ==
    [variant |-> "Reference", auth |-> auth, id |-> id, issuer |-> issuer,
     max_share |-> max_share]

CertData_Signature(auth, signature) ==
    [variant |-> "Signature", auth |-> auth, signature |-> signature]

\* bincode::serialize leaving id, issuer and max_share out of the payload of
\* the first certificate.
Bincode_serialize_auth_only(cert_data) ==
    IF cert_data.variant = "Reference"
    THEN IF cert_data.id = 0
         THEN [ok |-> FALSE]
         ELSE [ok |-> TRUE,
               buf |-> <<0, cert_data.auth.capability.actions,
                         cert_data.auth.capability.share,
                         cert_data.auth.subject>>]
    ELSE [ok |-> TRUE,
          buf |-> <<1, cert_data.auth.capability.actions,
                    cert_data.auth.capability.share,
                    cert_data.auth.subject, cert_data.signature>>]

\* bincode::serialize(&cert_data): the variant tag followed by the fields in
\* declaration order; Err when the Id does not serialize.
Bincode_serialize(cert_data) ==
    IF cert_data.variant = "Reference"
    THEN IF cert_data.id = 0
         THEN [ok |-> FALSE]
         ELSE [ok |-> TRUE,
               buf |-> <<0, cert_data.auth.capability.actions,
                         cert_data.auth.capability.share,
                         cert_data.auth.subject, cert_data.id,
                         cert_data.issuer, cert_data.max_share>>]
    ELSE [ok |-> TRUE,
          buf |-> <<1, cert_data.auth.capability.actions,
                    cert_data.auth.capability.share,
                    cert_data.auth.subject, cert_data.signature>>]

\* self.certs.last()
Certs_last(certs) == IF Len(certs) = 0 THEN None ELSE Some(certs[Len(certs)])

\* Reference::cert_data leaving the predecessor's signature out of the
\* payload of a chained certificate.
Reference_cert_data_unchained(self, issuer, auth, last) ==
    IF ~IsSome(last)
    THEN [ok |-> TRUE,
          data |-> CertData_Reference(auth, self.id, self.issuer, self.max_share)]
    ELSE IF ~Capability_is_subset(auth.capability, Unwrap(last).auth.capability)
         THEN [ok |-> FALSE, err |-> "Capability"]
         ELSE IF issuer # Unwrap(last).auth.subject
              THEN [ok |-> FALSE, err |-> "Issuer"]
              ELSE [ok |-> TRUE,
                    data |-> CertData_Signature(auth, Signer_sign(0, <<>>))]

\* Reference::cert_data testing the issuer before the capability.
Reference_cert_data_issuer_first(self, issuer, auth, last) ==
    IF ~IsSome(last)
    THEN [ok |-> TRUE,
          data |-> CertData_Reference(auth, self.id, self.issuer, self.max_share)]
    ELSE IF issuer # Unwrap(last).auth.subject
         THEN [ok |-> FALSE, err |-> "Issuer"]
         ELSE IF ~Capability_is_subset(auth.capability, Unwrap(last).auth.capability)
              THEN [ok |-> FALSE, err |-> "Capability"]
              ELSE [ok |-> TRUE,
                    data |-> CertData_Signature(auth, Unwrap(last).signature)]

\* Reference::cert_data
Reference_cert_data(self, issuer, auth, last) ==
    IF ~IsSome(last)
    THEN [ok |-> TRUE,
          data |-> CertData_Reference(auth, self.id, self.issuer, self.max_share)]
    ELSE IF ~Capability_is_subset(auth.capability, Unwrap(last).auth.capability)
         THEN [ok |-> FALSE, err |-> "Capability"]
         ELSE IF issuer # Unwrap(last).auth.subject
              THEN [ok |-> FALSE, err |-> "Issuer"]
              ELSE [ok |-> TRUE,
                    data |-> CertData_Signature(auth, Unwrap(last).signature)]

\* Reference::sign pushing the certificate whether or not try_sign succeeded.
Reference_sign_push_always(self, signer, auth, signs) ==
    IF Len(self.certs) >= self.max_share + 1
    THEN [res |-> "MaxShare", ref |-> self]
    ELSE IF ~Sign_verifier(signer).ok
    THEN [res |-> "Panic", ref |-> self]
    ELSE
      LET cert_data == Reference_cert_data(self, Sign_verifier(signer).v, auth,
                                           Certs_last(self.certs))
      IN IF ~cert_data.ok
         THEN [res |-> cert_data.err, ref |-> self]
         ELSE LET ser == Bincode_serialize(cert_data.data)
              IN IF ~ser.ok
                 THEN [res |-> "Serialize", ref |-> self]
                 ELSE [res |-> IF signs THEN "Ok" ELSE "Signature",
                       ref |-> [self EXCEPT !.certs =
                                  Append(@, [auth |-> auth,
                                             signature |->
                                               Signer_sign(signer, ser.buf)])]]

\* Reference::sign testing the chain length with `>` instead of `>=`.
Reference_sign_off_by_one(self, signer, auth, signs) ==
    IF Len(self.certs) > self.max_share + 1
    THEN [res |-> "MaxShare", ref |-> self]
    ELSE IF ~Sign_verifier(signer).ok
    THEN [res |-> "Panic", ref |-> self]
    ELSE
      LET cert_data == Reference_cert_data(self, Sign_verifier(signer).v, auth,
                                           Certs_last(self.certs))
      IN IF ~cert_data.ok
         THEN [res |-> cert_data.err, ref |-> self]
         ELSE LET ser == Bincode_serialize(cert_data.data)
              IN IF ~ser.ok
                 THEN [res |-> "Serialize", ref |-> self]
                 ELSE IF ~signs
                 THEN [res |-> "Signature", ref |-> self]
                 ELSE [res |-> "Ok",
                       ref |-> [self EXCEPT !.certs =
                                  Append(@, [auth |-> auth,
                                             signature |->
                                               Signer_sign(signer, ser.buf)])]]

\* Reference::sign.  `signs` tells whether the signer's try_sign succeeds.
\* Returns the result and the value of `self` after the call.
Reference_sign(self, signer, auth, signs) ==
    IF Len(self.certs) >= self.max_share + 1
    THEN [res |-> "MaxShare", ref |-> self]
    ELSE IF ~Sign_verifier(signer).ok
    THEN [res |-> "Panic", ref |-> self]
    ELSE
      LET cert_data == Reference_cert_data(self, Sign_verifier(signer).v, auth,
                                           Certs_last(self.certs))
      IN IF ~cert_data.ok
         THEN [res |-> cert_data.err, ref |-> self]
         ELSE LET ser == Bincode_serialize(cert_data.data)
              IN IF ~ser.ok
                 THEN [res |-> "Serialize", ref |-> self]
                 ELSE IF ~signs
                 THEN [res |-> "Signature", ref |-> self]
                 ELSE [res |-> "Ok",
                       ref |-> [self EXCEPT !.certs =
                                  Append(@, [auth |-> auth,
                                             signature |->
                                               Signer_sign(signer, ser.buf)])]]

\* Reference::new: Result<Self, Error>
Reference_new(id, issuer, max_share, auth, signs) ==
    IF ~Sign_verifier(issuer).ok
    THEN [res |-> "Issuer", ref |-> None]
    ELSE LET reference == [id |-> id, issuer |-> Sign_verifier(issuer).v,
                           max_share |-> max_share, certs |-> <<>>]
             signed == Reference_sign(reference, issuer, auth, signs)
         IN IF signed.res = "Ok"
            THEN [res |-> "Ok", ref |-> Some(signed.ref)]
            ELSE [res |-> signed.res, ref |-> None]

\* The indexes of the certificates whose subject is `subject`.
Certs_with_subject(certs, subject) ==
    { i \in 1 .. Len(certs) : certs[i].auth.subject = subject }

\* self.certs.iter().find(..): index of the first match (1-based).
Certs_find(certs, subject) ==
    CHOOSE i \in Certs_with_subject(certs, subject) :
        \A j \in Certs_with_subject(certs, subject) : i <= j

\* Reference::subset taking certs[0..i] instead of certs[0..i+1].
Reference_subset_short(self, subject) ==
    IF Certs_with_subject(self.certs, subject) = {}
    THEN None
    ELSE Some([self EXCEPT !.certs =
                 SubSeq(@, 1, Certs_find(self.certs, subject) - 1)])

\* Reference::subset: Option<Self>
Reference_subset(self, subject) ==
    IF Certs_with_subject(self.certs, subject) = {}
    THEN None
    ELSE Some([self EXCEPT !.certs =
                 SubSeq(@, 1, Certs_find(self.certs, subject))])

\* Reference::shrink taking the prefix up to `subject` instead of up to the signer.
Reference_shrink_subject_prefix(self, signer, subject, signs) ==
    IF Certs_with_subject(self.certs, subject) = {}
    THEN None
    ELSE LET cert == self.certs[Certs_find(self.certs, subject)]
         IN IF ~Sign_verifier(signer).ok
            THEN None
            ELSE LET prefix == Reference_subset(self, subject)
                 IN IF ~IsSome(prefix)
                    THEN None
                    ELSE LET signed == Reference_sign(Unwrap(prefix), signer,
                                                      cert.auth, signs)
                         IN IF signed.res = "Ok" THEN Some(signed.ref) ELSE None

\* Reference::shrink re-signing without the chain-length test of sign.
Reference_shrink_unbounded(self, signer, subject, signs) ==
    IF Certs_with_subject(self.certs, subject) = {}
    THEN None
    ELSE LET cert == self.certs[Certs_find(self.certs, subject)]
         IN IF ~Sign_verifier(signer).ok
            THEN None
            ELSE LET prefix == Reference_subset(self, Sign_verifier(signer).v)
                 IN IF ~IsSome(prefix)
                    THEN None
                    ELSE LET signed == Reference_sign_off_by_one(
                                           Unwrap(prefix), signer, cert.auth, signs)
                         IN IF signed.res = "Ok" THEN Some(signed.ref) ELSE None

\* Reference::shrink: Option<Self>
Reference_shrink(self, signer, subject, signs) ==
    IF Certs_with_subject(self.certs, subject) = {}
    THEN None
    ELSE LET cert == self.certs[Certs_find(self.certs, subject)]
         IN IF ~Sign_verifier(signer).ok
            THEN None
            ELSE LET prefix == Reference_subset(self, Sign_verifier(signer).v)
                 IN IF ~IsSome(prefix)
                    THEN None
                    ELSE LET signed == Reference_sign(Unwrap(prefix), signer,
                                                      cert.auth, signs)
                         IN IF signed.res = "Ok" THEN Some(signed.ref) ELSE None

\* The loop of Reference::validate without the verification of signatures.
RECURSIVE Reference_validate_certs_unverified(_, _, _)
Reference_validate_certs_unverified(self, i, issuer) ==
    IF i > Len(self.certs)
    THEN "Ok"
    ELSE LET cert == self.certs[i]
             last == IF i = 1 THEN None ELSE Some(self.certs[i - 1])
             cert_data == Reference_cert_data(self, issuer, cert.auth, last)
         IN IF ~cert_data.ok
            THEN cert_data.err
            ELSE LET ser == Bincode_serialize(cert_data.data)
                 IN IF ~ser.ok
                    THEN "Serialize"
                    ELSE Reference_validate_certs_unverified(self, i + 1,
                                                             cert.auth.subject)

\* The loop of Reference::validate verifying the signature of a certificate
\* before testing its capability.
RECURSIVE Reference_validate_certs_signature_first(_, _, _)
Reference_validate_certs_signature_first(self, i, issuer) ==
    IF i > Len(self.certs)
    THEN "Ok"
    ELSE LET cert == self.certs[i]
             last == IF i = 1 THEN None ELSE Some(self.certs[i - 1])
             cert_data == Reference_cert_data(self, issuer, cert.auth, last)
             data == IF i = 1
                     THEN CertData_Reference(cert.auth, self.id, self.issuer,
                                             self.max_share)
                     ELSE CertData_Signature(cert.auth, Unwrap(last).signature)
             ser == Bincode_serialize(data)
         IN IF ~ser.ok
            THEN "Serialize"
            ELSE IF ~Verifier_verify(issuer, ser.buf, cert.signature)
            THEN "Signature"
            ELSE IF ~cert_data.ok
            THEN cert_data.err
            ELSE Reference_validate_certs_signature_first(self, i + 1,
                                                          cert.auth.subject)

\* The loop of Reference::validate from certificate i on, `issuer` being the
\* key the certificate must verify under.
RECURSIVE Reference_validate_certs(_, _, _)
Reference_validate_certs(self, i, issuer) ==
    IF i > Len(self.certs)
    THEN "Ok"
    ELSE LET cert == self.certs[i]
             last == IF i = 1 THEN None ELSE Some(self.certs[i - 1])
             cert_data == Reference_cert_data(self, issuer, cert.auth, last)
         IN IF ~cert_data.ok
            THEN cert_data.err
            ELSE LET ser == Bincode_serialize(cert_data.data)
                 IN IF ~ser.ok
                    THEN "Serialize"
                    ELSE IF ~Verifier_verify(issuer, ser.buf, cert.signature)
                    THEN "Signature"
                    ELSE Reference_validate_certs(self, i + 1, cert.auth.subject)

\* Validate for Reference without the test of the expected subject.
Reference_validate_any_subject(self, subject) ==
    IF Len(self.certs) > self.max_share + 1
    THEN "MaxShare"
    ELSE IF Len(self.certs) = 0
    THEN "Empty"
    ELSE Reference_validate_certs(self, 1, self.issuer)

\* Validate for Reference: validate(&self, subject)
Reference_validate(self, subject) ==
    IF Len(self.certs) > self.max_share + 1
    THEN "MaxShare"
    ELSE IF Len(self.certs) = 0
    THEN "Empty"
    ELSE IF subject # self.certs[Len(self.certs)].auth.subject
    THEN "Subject"
    ELSE Reference_validate_certs(self, 1, self.issuer)

\* No reference exists: the state of the reference variables in the
\* specifications that are about capabilities alone.
RefIdle ==
    /\ r = None
    /\ out = None
    /\ call = [op |-> "none", res |-> "none"]
    /\ held = None
    /\ edits = 0

\* No Unsafe<T> exists.
UnsafeIdle ==
    /\ wrapped = None
    /\ seen = None
    /\ unsafeCall = [op |-> "none"]

\* The callers of dispatch, the handler ids and the handler functions.
Tasks == 1 .. NTasks
HandlerIds == 1 .. NHandlerIds
Funcs == 1 .. NFuncs

\* A caller that is not inside dispatch; `res` is what its last call returned.
TaskIdle(res) ==
    [pc |-> "idle", id |-> 0, func |-> 0, once |-> FALSE, res |-> res]

\* Dispatch::new(None), nothing registered, nobody calling.
DispatchIdle ==
    /\ handlers = [id \in HandlerIds |-> None]
    /\ count = 0
    /\ max_count = None
    /\ poisoned = FALSE
    /\ tasks = [t \in Tasks |-> TaskIdle("none")]
    /\ log = [f \in Funcs |-> None]
    /\ dcall = [op |-> "none"]

\* No Framed stream has yielded and no Framed sink was used.
FramedIdle ==
    /\ yielded = <<>>
    /\ sent = <<>>
    /\ written = <<>>
    /\ sinkCall = [op |-> "none", res |-> "none"]

\* No stream was given to dispatch_stream.
StreamIdle ==
    /\ wire = <<>>
    /\ rpos = 0
    /\ fbuffer = <<>>
    /\ fcapacity = 0
    /\ handed = None
    /\ streamCall = [res |-> "none", read |-> "none"]
    /\ FramedIdle

\* simple_service::Service::new() and a fresh pair of channels; nothing
\* called, nothing served.
ServiceIdle ==
    /\ svc = [a |-> 0, alive |-> TRUE]
    /\ reqQ = <<>>
    /\ respQ = <<>>
    /\ cli = [pc |-> "idle", method |-> "none"]
    /\ srv = [pc |-> "top"]
    /\ hist = [calls |-> <<>>, results |-> <<>>, served |-> <<>>, pushed |-> <<>>]

\* The codec has an empty buffer and was not called.
CodecIdle ==
    /\ buffer = <<>>
    /\ tail = <<>>
    /\ codecCall = [op |-> "none", res |-> "none"]

\* ------------------------------------------- Capability: state machine
\* Constructors and mutators applied in any order, starting from a
\* capability built with Capability::new.  The receiver of an operation is
\* any capability obtained so far; the rhs of & and &= is built with new.
CapInit ==
    /\ RefIdle
    /\ UnsafeIdle
    /\ CodecIdle
    /\ DispatchIdle
    /\ StreamIdle
    /\ ServiceIdle
    /\ \E a \in Word(CapBits), s \in Word(CapBits) :
          /\ capA = Capability_new(a, s)
          /\ capB = Capability_new(a, s)
          /\ capC = Capability_new(a, s)
    /\ capOp = "new"
    /\ capRes = FALSE

CapNew ==
    \E a \in Word(CapBits), s \in Word(CapBits) :
        /\ capC' = Capability_new(a, s)
        /\ capA' = capC'
        /\ capOp' = "new"
        /\ UNCHANGED <<capB, capRes, nonCapVars>>

CapEmpty ==
    /\ capC' = Capability_empty
    /\ capA' = capC'
    /\ capOp' = "empty"
    /\ UNCHANGED <<capB, capRes, nonCapVars>>

CapSubset ==
    \E recv \in {capA, capC}, a \in Word(CapBits), s \in Word(CapBits) :
        /\ capA' = recv
        /\ capC' = Capability_subset(recv, a, s)
        /\ capOp' = "subset"
        /\ UNCHANGED <<capB, capRes, nonCapVars>>

CapSubsetInplace ==
    \E recv \in {capA, capC}, a \in Word(CapBits), s \in Word(CapBits) :
        /\ capA' = Capability_subset_inplace(recv, a, s)
        /\ capC' = capA'
        /\ capOp' = "subset_inplace"
        /\ UNCHANGED <<capB, capRes, nonCapVars>>

CapBitAnd ==
    \E recv \in {capA, capC}, a \in Word(CapBits), s \in Word(CapBits) :
        /\ capA' = recv
        /\ capB' = Capability_new(a, s)
        /\ capC' = Capability_bitand(recv, capB')
        /\ capOp' = "bitand"
        /\ UNCHANGED <<capRes, nonCapVars>>

CapBitAndAssign ==
    \E recv \in {capA, capC}, a \in Word(CapBits), s \in Word(CapBits) :
        /\ capB' = Capability_new(a, s)
        /\ capA' = Capability_bitand_assign(recv, capB')
        /\ capC' = capA'
        /\ capOp' = "bitand_assign"
        /\ UNCHANGED <<capRes, nonCapVars>>

CapNext ==
    \/ CapNew
    \/ CapEmpty
    \/ CapSubset
    \/ CapSubsetInplace
    \/ CapBitAnd
    \/ CapBitAndAssign

\* Any values of the public fields `actions` and `share`, and is_subset
\* evaluated on them.
FieldsInit ==
    /\ RefIdle
    /\ UnsafeIdle
    /\ CodecIdle
    /\ DispatchIdle
    /\ StreamIdle
    /\ ServiceIdle
    /\ capA \in Capability(CapBits)
    /\ capB \in Capability(CapBits)
    /\ capC \in Capability(CapBits)
    /\ capOp = "fields"
    /\ capRes = FALSE

\* capB.is_subset(&capA)
FieldsIsSubset ==
    /\ capRes' = Capability_is_subset(capB, capA)
    /\ capOp' = "is_subset"
    /\ UNCHANGED <<capA, capB, capC, nonCapVars>>

FieldsNext == FieldsIsSubset

SpecCap == CapInit /\ [][CapNext]_vars

SpecFields == FieldsInit /\ [][FieldsNext]_vars

\* ------------------------------------------------- Capability: claims
\* x is bitwise contained in y.
Contained(x, y) == Bits(x, CapBits) \subseteq Bits(y, CapBits)

\* c is a value Capability::new can return.
BuiltWithNew(c) ==
    \E a \in Word(CapBits), s \in Word(CapBits) : c = Capability_new(a, s)

\* C1: after any sequence of new, empty, subset, subset_inplace, & and &=
\* starting from capabilities built with new, every resulting capability
\* satisfies is_valid().
C1_AlwaysValid ==
    /\ Capability_is_valid(capA)
    /\ Capability_is_valid(capC)

\* C2 as stated: for a and b built with new, c = a & b satisfies
\* c.is_subset(a) and c.is_subset(b).
C2_SubsetOfBoth ==
    (capOp = "bitand" /\ BuiltWithNew(capA) /\ BuiltWithNew(capB))
        => /\ Capability_is_subset(capC, capA)
           /\ Capability_is_subset(capC, capB)

\* C2 amended: for a and b built with new, c = a & b satisfies
\* c.is_subset(a); c.is_subset(b) holds exactly when every operation of b
\* that a may share is shareable in b (a.share & b.actions within b.share).
C2_SubsetOfReceiver ==
    (capOp = "bitand" /\ BuiltWithNew(capA) /\ BuiltWithNew(capB))
        => /\ Capability_is_subset(capC, capA)
           /\ Capability_is_subset(capC, capB)
                <=> (Bits(capA.share, CapBits) \cap Bits(capB.actions, CapBits))
                        \subseteq Bits(capB.share, CapBits)

\* An intersection that is a subset of its receiver and not of its operand.
C2_Witness ==
    /\ capOp = "bitand"
    /\ BuiltWithNew(capA)
    /\ BuiltWithNew(capB)
    /\ ~Capability_is_empty(capC)
    /\ Capability_is_subset(capC, capA)
    /\ ~Capability_is_subset(capC, capB)

CapIdle ==
    /\ capA = Capability_empty
    /\ capB = Capability_empty
    /\ capC = Capability_empty
    /\ capOp = "none"
    /\ capRes = FALSE

RefInit ==
    /\ CapIdle
    /\ RefIdle
    /\ UnsafeIdle
    /\ CodecIdle
    /\ DispatchIdle
    /\ StreamIdle
    /\ ServiceIdle

\* r = Reference::new(id, &issuer, max_share, auth)
RefNew ==
    /\ r = None
    /\ \E id \in Ids, issuer \in Signers, max_share \in 0 .. MaxShare,
          auth \in Authorizations, signs \in BOOLEAN :
          LET res == Reference_new(id, issuer, max_share, auth, signs)
          IN /\ r' = res.ref
             /\ call' = [op |-> "new", res |-> res.res]
    /\ out' = None
    /\ UNCHANGED <<held, edits, nonRefVars>>

\* r.sign(&signer, auth)
RefSign ==
    /\ IsSome(r)
    /\ \E signer \in Signers, auth \in Authorizations, signs \in BOOLEAN :
          LET res == Reference_sign(Unwrap(r), signer, auth, signs)
          IN /\ r' = Some(res.ref)
             /\ call' = [op |-> "sign", res |-> res.res, signer |-> signer,
                         capability |-> auth.capability]
    /\ out' = None
    /\ UNCHANGED <<held, edits, nonRefVars>>

\* out = r.subset(&subject)
RefSubset ==
    /\ IsSome(r)
    /\ \E subject \in PublicKeys :
          /\ out' = Reference_subset(Unwrap(r), subject)
          /\ call' = [op |-> "subset",
                      res |-> IF IsSome(out') THEN "Some" ELSE "None"]
    /\ UNCHANGED <<r, held, edits, nonRefVars>>

\* out = r.shrink(&signer, &subject)
RefShrink ==
    /\ IsSome(r)
    /\ \E signer \in Signers, subject \in PublicKeys, signs \in BOOLEAN :
          /\ out' = Reference_shrink(Unwrap(r), signer, subject, signs)
          /\ call' = [op |-> "shrink",
                      res |-> IF IsSome(out') THEN "Some" ELSE "None"]
    /\ UNCHANGED <<r, held, edits, nonRefVars>>

\* r.validate(&subject)
RefValidate ==
    /\ IsSome(r)
    /\ \E subject \in PublicKeys :
          call' = [op |-> "validate",
                   res |-> Reference_validate(Unwrap(r), subject)]
    /\ out' = None
    /\ UNCHANGED <<r, held, edits, nonRefVars>>

RefNext ==
    \/ RefNew
    \/ RefSign
    \/ RefSubset
    \/ RefShrink
    \/ RefValidate

SpecRef == RefInit /\ [][RefNext]_vars

\* ------------------------------------- Reference: altered references
\* A Reference is Deserialize and its certificates have public fields: a
\* value received from a peer, or written to through certs, may hold any
\* field values.  The alterations below are single field writes on r.
TamperIds == 0 .. (NIds + 1)

\* The payload a signer would sign for position i of ref (what cert_data and
\* bincode::serialize produce there), None when it does not serialize.
Position_payload(ref, i) ==
    LET data == IF i = 1
                THEN CertData_Reference(ref.certs[i].auth, ref.id, ref.issuer,
                                        ref.max_share)
                ELSE CertData_Signature(ref.certs[i].auth,
                                        ref.certs[i - 1].signature)
        ser == Bincode_serialize(data)
    IN IF ser.ok THEN Some(ser.buf) ELSE None

\* The signatures an altered certificate i may carry: that of another
\* certificate of the chain, or one made with any key over the payload of
\* position i.
Signature_pool(ref, i) ==
    { ref.certs[k].signature : k \in (1 .. Len(ref.certs)) \ {i} }
    \cup { Signer_sign(s, Unwrap(Position_payload(ref, i))) :
             s \in { x \in 1 .. NKeys : IsSome(Position_payload(ref, i)) } }

Altered(ref) ==
    /\ r' = Some(ref)
    /\ Some(ref) # r
    /\ edits' = edits + 1
    /\ call' = [op |-> "alter", res |-> "none"]
    /\ out' = None

\* id, issuer or max_share of r replaced (Deserialize for Reference)
AlterHeader ==
    /\ IsSome(r)
    /\ edits < MaxEdits
    /\ \/ \E id \in TamperIds : Altered([Unwrap(r) EXCEPT !.id = id])
       \/ \E k \in PublicKeys : Altered([Unwrap(r) EXCEPT !.issuer = k])
       \/ \E m \in 0 .. MaxShare : Altered([Unwrap(r) EXCEPT !.max_share = m])
    /\ UNCHANGED <<held, nonRefVars>>

\* certs.get_mut(i).auth.capability = capability
AlterCapability ==
    /\ IsSome(r)
    /\ edits < MaxEdits
    /\ \E i \in 1 .. Len(Unwrap(r).certs), c \in Capability(RefBits) :
          Altered([Unwrap(r) EXCEPT !.certs[i].auth.capability = c])
    /\ UNCHANGED <<held, nonRefVars>>

\* certs.get_mut(i).auth.subject = subject
AlterSubject ==
    /\ IsSome(r)
    /\ edits < MaxEdits
    /\ \E i \in 1 .. Len(Unwrap(r).certs), k \in PublicKeys :
          Altered([Unwrap(r) EXCEPT !.certs[i].auth.subject = k])
    /\ UNCHANGED <<held, nonRefVars>>

\* certs.get_mut(i).signature = signature
AlterSignature ==
    /\ IsSome(r)
    /\ edits < MaxEdits
    /\ \E i \in 1 .. Len(Unwrap(r).certs) :
          \E s \in Signature_pool(Unwrap(r), i) :
             Altered([Unwrap(r) EXCEPT !.certs[i].signature = s])
    /\ UNCHANGED <<held, nonRefVars>>

\* held = certs.remove(i)
RemoveCert ==
    /\ IsSome(r)
    /\ edits < MaxEdits
    /\ \E i \in 1 .. Len(Unwrap(r).certs) :
          /\ Altered([Unwrap(r) EXCEPT !.certs =
                        SubSeq(@, 1, i - 1) \o SubSeq(@, i + 1, Len(@))])
          /\ held' = Some(Unwrap(r).certs[i])
    /\ UNCHANGED nonRefVars

\* certs.push(held)
PushCert ==
    /\ IsSome(r)
    /\ IsSome(held)
    /\ Altered([Unwrap(r) EXCEPT !.certs = Append(@, Unwrap(held))])
    /\ held' = None
    /\ UNCHANGED nonRefVars

\* certs.push(Certificate { auth, signature }) with a signature made by any
\* signer over the payload of the new position, none of sign's checks made
ForgeCert ==
    /\ IsSome(r)
    /\ edits < MaxEdits
    /\ Len(Unwrap(r).certs) <= MaxShare + 1
    /\ \E signer \in 1 .. NKeys, auth \in Authorizations :
          LET pushed == [Unwrap(r) EXCEPT !.certs =
                           Append(@, [auth |-> auth,
                                      signature |-> Signer_sign(0, <<>>)])]
              n == Len(pushed.certs)
              payload == Position_payload(pushed, n)
          IN /\ IsSome(payload)
             /\ Altered([pushed EXCEPT !.certs[n].signature =
                            Signer_sign(signer, Unwrap(payload))])
    /\ UNCHANGED <<held, nonRefVars>>

\* The reference is built by new and sign before it is altered.
BuildNew == edits = 0 /\ RefNew
BuildSign == edits = 0 /\ RefSign

TamperNext ==
    \/ BuildNew
    \/ BuildSign
    \/ RefValidate
    \/ AlterHeader
    \/ AlterCapability
    \/ AlterSubject
    \/ AlterSignature
    \/ RemoveCert
    \/ PushCert
    \/ ForgeCert

SpecTamper == RefInit /\ [][TamperNext]_vars

\* -------------------------------------------------- Reference: claims
\* Capability b is a subset of capability a, stated on sets of bits.
SubsetOf(b, a) ==
    /\ Contained(b.actions, a.share)
    /\ Contained(b.actions, a.actions)
    /\ Contained(b.share, a.share)

\* The chain is full: no certificate can be appended.
Full(ref) == Len(ref.certs) >= ref.max_share + 1

LastCert(ref) == ref.certs[Len(ref.certs)]

Subjects(ref) == { ref.certs[i].auth.subject : i \in 1 .. Len(ref.certs) }

DistinctSubjects(ref) == Cardinality(Subjects(ref)) = Len(ref.certs)

SignErrors == {"MaxShare", "Issuer", "Capability", "Serialize", "Signature"}

WithinBound(o) ==
    IsSome(o) => /\ 1 <= Len(Unwrap(o).certs)
                 /\ Len(Unwrap(o).certs) <= Unwrap(o).max_share + 1

\* C5: in every state reachable from Reference::new by sign, subset and
\* shrink calls, successful or failing, every existing reference has
\* 1 <= len(certs) <= max_share + 1; with max_share = 0 construction yields
\* exactly one certificate and every later sign fails with MaxShare.
C5_ChainLengthBound ==
    /\ WithinBound(r)
    /\ WithinBound(out)
    /\ (call.op = "new" /\ call.res = "Ok") => Len(Unwrap(r).certs) = 1
    /\ (call.op = "sign" /\ Unwrap(r).max_share = 0) => call.res = "MaxShare"

\* A sign refused on a reference created with max_share = 0.
C5_Witness ==
    /\ call.op = "sign"
    /\ call.res = "MaxShare"
    /\ Unwrap(r).max_share = 0
    /\ Len(Unwrap(r).certs) = 1

\* C6: whenever sign returns an error (MaxShare, Issuer, Capability,
\* Serialize or Signature), the reference's certs, id, issuer and max_share
\* are exactly what they were before the call.
C6_FailedSignKeepsReference ==
    [][(call'.op = "sign" /\ call'.res \in SignErrors) => r' = r]_vars

\* A sign that failed at the last step, the signature itself.
C6_Witness ==
    /\ call.op = "sign"
    /\ call.res = "Signature"
    /\ IsSome(r)

\* C7 as stated: sign checks chain full (MaxShare), then the signer's key
\* against the last subject (Issuer), then the capability (Capability), and
\* returns the error of the first check that fails.
C7_IssuerBeforeCapability ==
    [][(call'.op = "sign" /\ IsSome(r) /\ Sign_verifier(call'.signer).ok) =>
         LET ref == Unwrap(r)
             isIssuer == PublicKeyOf(call'.signer) = LastCert(ref).auth.subject
             isSubset == SubsetOf(call'.capability, LastCert(ref).auth.capability)
         IN /\ Full(ref) => call'.res = "MaxShare"
            /\ (~Full(ref) /\ ~isIssuer) => call'.res = "Issuer"
            /\ (~Full(ref) /\ isIssuer /\ ~isSubset) => call'.res = "Capability"
      ]_vars

\* C7 amended: sign checks chain full (MaxShare), then the capability
\* against the last certificate's capability (Capability), then the signer's
\* key against the last subject (Issuer), and returns the error of the first
\* check that fails: a call on a non-empty chain that violates both the
\* Issuer and the Capability conditions returns Capability, and a call on a
\* full chain returns MaxShare whatever the signer and the capability.
C7_CapabilityBeforeIssuer ==
    [][(call'.op = "sign" /\ IsSome(r) /\ Sign_verifier(call'.signer).ok) =>
         LET ref == Unwrap(r)
             isIssuer == PublicKeyOf(call'.signer) = LastCert(ref).auth.subject
             isSubset == SubsetOf(call'.capability, LastCert(ref).auth.capability)
         IN /\ Full(ref) => call'.res = "MaxShare"
            /\ (~Full(ref) /\ ~isSubset) => call'.res = "Capability"
            /\ (~Full(ref) /\ isSubset /\ ~isIssuer) => call'.res = "Issuer"
      ]_vars

\* A sign that violated both conditions and returned Capability (the failed
\* call left r as it was).
C7_Witness ==
    /\ call.op = "sign"
    /\ call.res = "Capability"
    /\ Sign_verifier(call.signer).ok
    /\ ~Full(Unwrap(r))
    /\ PublicKeyOf(call.signer) # LastCert(Unwrap(r)).auth.subject
    /\ ~SubsetOf(call.capability, LastCert(Unwrap(r)).auth.capability)

\* C8: on a non-full chain whose last certificate's capability has an empty
\* share set, sign with a capability that has at least one operation bit
\* fails with Capability and appends nothing, whether the signer is the last
\* certificate's subject or any other key.
C8_NothingShareable ==
    [][(/\ call'.op = "sign"
        /\ IsSome(r)
        /\ Sign_verifier(call'.signer).ok
        /\ ~Full(Unwrap(r))
        /\ LastCert(Unwrap(r)).auth.capability.share = 0
        /\ call'.capability.actions # 0)
         => (call'.res = "Capability" /\ r' = r)
      ]_vars

\* Such a sign by a key that is not the last subject, refused with Capability.
C8_Witness ==
    /\ call.op = "sign"
    /\ call.res = "Capability"
    /\ ~Full(Unwrap(r))
    /\ LastCert(Unwrap(r)).auth.capability.share = 0
    /\ call.capability.actions # 0
    /\ Sign_verifier(call.signer).ok
    /\ PublicKeyOf(call.signer) # LastCert(Unwrap(r)).auth.subject

\* The canonical payload of position i of ref: the variant tag, the
\* authorization and, for the first certificate, id, issuer and max_share,
\* for a later one the signature of its predecessor.  Id 0 has no
\* encoding.
CanonicalPayload(ref, i) ==
    LET auth == ref.certs[i].auth
    IN IF i = 1
       THEN <<0, auth.capability.actions, auth.capability.share, auth.subject,
              ref.id, ref.issuer, ref.max_share>>
       ELSE <<1, auth.capability.actions, auth.capability.share, auth.subject,
              ref.certs[i - 1].signature>>

\* The six invariants of a valid Reference.
Inv1_NonEmpty(ref) == Len(ref.certs) >= 1
Inv2_MaxShare(ref) == Len(ref.certs) <= ref.max_share + 1
Inv3_SignedByPredecessor(ref) ==
    \A i \in 2 .. Len(ref.certs) :
        ref.certs[i].signature.key = ref.certs[i - 1].auth.subject
Inv4_Narrowing(ref) ==
    \A i \in 2 .. Len(ref.certs) :
        SubsetOf(ref.certs[i].auth.capability, ref.certs[i - 1].auth.capability)
Inv5_RootSignedByIssuer(ref) ==
    Len(ref.certs) >= 1 => ref.certs[1].signature.key = ref.issuer
Inv6_SignaturesVerify(ref) ==
    \A i \in 1 .. Len(ref.certs) :
        /\ i = 1 => ref.id # 0
        /\ ref.certs[i].signature.buf = CanonicalPayload(ref, i)

AllInvariants(ref) ==
    /\ Inv1_NonEmpty(ref)
    /\ Inv2_MaxShare(ref)
    /\ Inv3_SignedByPredecessor(ref)
    /\ Inv4_Narrowing(ref)
    /\ Inv5_RootSignedByIssuer(ref)
    /\ Inv6_SignaturesVerify(ref)

FirstWithSubject(ref, s) ==
    CHOOSE i \in 1 .. Len(ref.certs) :
        /\ ref.certs[i].auth.subject = s
        /\ \A k \in 1 .. (i - 1) : ref.certs[k].auth.subject # s

\* C9: for every reference r built by new and successful sign calls, and
\* every key s that is the subject of some certificate of r, r.subset(s)
\* returns a reference whose certs are the prefix of r.certs ending at the
\* first certificate with subject s, and validate(s) on it returns Ok.
C9_SubsetIsValidPrefix ==
    /\ IsSome(r) =>
         \A s \in Subjects(Unwrap(r)) :
            LET res == Reference_subset(Unwrap(r), s)
            IN /\ IsSome(res)
               /\ Unwrap(res).certs =
                    SubSeq(Unwrap(r).certs, 1, FirstWithSubject(Unwrap(r), s))
               /\ Reference_validate(Unwrap(res), s) = "Ok"
    /\ (call.op = "subset" /\ IsSome(out)) =>
         LET s == LastCert(Unwrap(out)).auth.subject
         IN /\ Unwrap(out).certs =
                 SubSeq(Unwrap(r).certs, 1, FirstWithSubject(Unwrap(r), s))
            /\ Reference_validate(Unwrap(out), s) = "Ok"

\* subset returned a proper prefix although the subject occurs again later.
C9_Witness ==
    /\ call.op = "subset"
    /\ IsSome(out)
    /\ Len(Unwrap(out).certs) < Len(Unwrap(r).certs)
    /\ \E i \in (Len(Unwrap(out).certs) + 1) .. Len(Unwrap(r).certs) :
          Unwrap(r).certs[i].auth.subject = LastCert(Unwrap(out)).auth.subject

\* C10: for a reference built by new and successful sign calls with pairwise
\* distinct subjects, a signer whose key is the subject of certs[i] and a
\* target that is the subject of certs[j], i < j: shrink(signer, target)
\* (the signer's try_sign succeeding) returns a reference with exactly i + 2
\* certificates whose last certificate has subject target and the
\* authorization of certs[j], in which the subjects of certs[i+1..j-1] no
\* longer appear, and validate(target) on it returns Ok.
C10_ShrinkRegrants ==
    (IsSome(r) /\ DistinctSubjects(Unwrap(r))) =>
        \A i \in 1 .. Len(Unwrap(r).certs), j \in 1 .. Len(Unwrap(r).certs) :
           i < j =>
             LET ref == Unwrap(r)
                 target == ref.certs[j].auth.subject
                 res == Reference_shrink(ref, ref.certs[i].auth.subject.pub,
                                         target, TRUE)
             IN /\ IsSome(res)
                /\ Len(Unwrap(res).certs) = i + 1
                /\ LastCert(Unwrap(res)).auth = ref.certs[j].auth
                /\ \A k \in (i + 1) .. (j - 1) :
                      ref.certs[k].auth.subject \notin Subjects(Unwrap(res))
                /\ Reference_validate(Unwrap(res), target) = "Ok"

\* shrink returned a chain shorter than r that ends with r's last
\* authorization: an intermediate subject was dropped.
C10_Witness ==
    /\ call.op = "shrink"
    /\ IsSome(out)
    /\ DistinctSubjects(Unwrap(r))
    /\ Len(Unwrap(out).certs) < Len(Unwrap(r).certs)
    /\ LastCert(Unwrap(out)).auth = LastCert(Unwrap(r)).auth
    /\ Reference_validate(Unwrap(out), LastCert(Unwrap(r)).auth.subject) = "Ok"

\* Reference `o` has the header of `ref` and respects its chain-length bound.
SameHeaderWithinBound(o, ref) ==
    /\ o.id = ref.id
    /\ o.issuer = ref.issuer
    /\ o.max_share = ref.max_share
    /\ Len(o.certs) <= ref.max_share + 1

\* C11: subset and shrink never change the reference they are called on,
\* and every reference they return has the same id, issuer and max_share as
\* the original and at most max_share + 1 certificates.
C11_SubsetShrinkFrame ==
    [][(call'.op \in {"subset", "shrink"}) =>
          /\ r' = r
          /\ IsSome(out') => SameHeaderWithinBound(Unwrap(out'), Unwrap(r))
      ]_vars

\* shrink returned a full chain: one more certificate would break the bound.
C11_Witness ==
    /\ call.op = "shrink"
    /\ IsSome(out)
    /\ Len(Unwrap(out).certs) = Unwrap(r).max_share + 1
    /\ Len(Unwrap(out).certs) >= 2

\* C12: for a reference on which validate(s) returns Ok, changing any one of
\* the header fields id, issuer or max_share to a different value while
\* leaving certs untouched makes validate(s) return an error.
C12_HeaderBound ==
    [][(/\ call'.op = "alter"
        /\ IsSome(r)
        /\ Unwrap(r').certs = Unwrap(r).certs)
         => \A s \in PublicKeys :
               Reference_validate(Unwrap(r), s) = "Ok"
                  => Reference_validate(Unwrap(r'), s) # "Ok"
      ]_vars

\* validate refused a reference whose certificates are those that were
\* signed and whose header is no longer the one the first signature covers.
C12_Witness ==
    /\ call.op = "validate"
    /\ call.res = "Signature"
    /\ edits > 0
    /\ LET ref == Unwrap(r)
           signed == ref.certs[1].signature.buf
       IN /\ Len(ref.certs) >= 1
          /\ Len(signed) = 7
          /\ signed # CanonicalPayload(ref, 1)
          /\ <<signed[1], signed[2], signed[3], signed[4]>> =
                <<0, ref.certs[1].auth.capability.actions,
                  ref.certs[1].auth.capability.share, ref.certs[1].auth.subject>>
          /\ ref.certs[1].signature.key = signed[6]
          /\ Reference_validate([ref EXCEPT !.id = signed[5],
                                            !.issuer = signed[6],
                                            !.max_share = signed[7]],
                                LastCert(ref).auth.subject) = "Ok"

\* certs without its i-th element, and certs with h put back at position i.
RemoveAt(certs, i) == SubSeq(certs, 1, i - 1) \o SubSeq(certs, i + 1, Len(certs))
InsertAt(certs, i, h) ==
    SubSeq(certs, 1, i - 1) \o <<h>> \o SubSeq(certs, i, Len(certs))

\* ref validates for the subject of its last certificate.
ValidForLast(ref) ==
    /\ Len(ref.certs) >= 1
    /\ Reference_validate(ref, LastCert(ref).auth.subject) = "Ok"

\* certs is a valid chain of ref, of at least three certificates, from which
\* the certificate h, neither the first nor the last, was taken out.
MiddleTakenOut(ref, h) ==
    \E i \in 2 .. Len(ref.certs) :
        ValidForLast([ref EXCEPT !.certs = InsertAt(@, i, h)])

\* C13: for a valid chain of at least three certificates, removing any
\* certificate that is neither the first nor the last makes validate(subject
\* of the new last certificate) return an error, and appending the removed
\* certificate at the tail also makes validate(subject of that tail
\* certificate) return an error.
C13_MiddleRemoved ==
    [][(call'.op = "alter" /\ IsSome(r)) =>
          LET before == Unwrap(r)
              after == Unwrap(r')
          IN /\ (/\ Len(before.certs) >= 3
                  /\ Len(after.certs) = Len(before.certs) - 1
                  /\ \E i \in 2 .. (Len(before.certs) - 1) :
                        /\ after = [before EXCEPT !.certs = RemoveAt(@, i)]
                        /\ held' = Some(before.certs[i])
                  /\ ValidForLast(before))
                   => ~ValidForLast(after)
             /\ (/\ IsSome(held)
                  /\ after = [before EXCEPT !.certs = Append(@, Unwrap(held))]
                  /\ MiddleTakenOut(before, Unwrap(held)))
                   => /\ LastCert(after) = Unwrap(held)
                      /\ ~ValidForLast(after)
      ]_vars

\* validate refused, for the subject of its last certificate, a chain whose
\* second certificate was taken out and appended at the tail: the middle
\* certificate is signed over the signature of the last one, and the last one
\* over the signature of the first.
C13_Witness ==
    /\ call.op = "validate"
    /\ call.res \notin {"Ok", "Subject"}
    /\ edits = 2
    /\ held = None
    /\ LET ref == Unwrap(r)
       IN /\ Len(ref.certs) = 3
          /\ ValidForLast([ref EXCEPT !.certs = <<@[1], @[3], @[2]>>])

\* C14: in a valid chain of at least two certificates, replacing the
\* signature of one certificate by the signature of a different certificate
\* of the same chain makes validate(subject of the last certificate) fail
\* with Signature.
C14_SignatureSwapped ==
    [][(/\ call'.op = "alter"
        /\ IsSome(r)
        /\ Len(Unwrap(r).certs) >= 2
        /\ Len(Unwrap(r').certs) = Len(Unwrap(r).certs)
        /\ \E i \in 1 .. Len(Unwrap(r).certs), k \in 1 .. Len(Unwrap(r).certs) :
              /\ i # k
              /\ Unwrap(r').certs[i].signature = Unwrap(r).certs[k].signature
              /\ Unwrap(r') = [Unwrap(r) EXCEPT !.certs[i].signature =
                                                  Unwrap(r).certs[k].signature]
        /\ ValidForLast(Unwrap(r)))
         => Reference_validate(Unwrap(r'), LastCert(Unwrap(r')).auth.subject)
               = "Signature"
      ]_vars

\* validate returned Signature on a chain in which a certificate that is not
\* the last carries the signature of another one, and which validates once
\* that certificate has its own signature back.
C14_Witness ==
    /\ call.op = "validate"
    /\ call.res = "Signature"
    /\ edits = 1
    /\ LET ref == Unwrap(r)
       IN /\ Len(ref.certs) >= 3
          /\ \E i \in 1 .. (Len(ref.certs) - 1), k \in 1 .. Len(ref.certs) :
                /\ i # k
                /\ ref.certs[i].signature = ref.certs[k].signature
                /\ \E s \in 1 .. NKeys :
                      ValidForLast([ref EXCEPT !.certs[i].signature =
                                      Signer_sign(s, CanonicalPayload(ref, i))])

\* C15: validate(expected) on a non-empty chain within the max_share bound
\* returns Subject whenever expected differs from the subject of the last
\* certificate, even when every certificate of the chain is correctly
\* signed; a validly signed chain is accepted only for its final subject.
C15_OnlyFinalSubject ==
    (IsSome(r) /\ Len(Unwrap(r).certs) >= 1 /\ ~(Len(Unwrap(r).certs) > Unwrap(r).max_share + 1))
        => \A expected \in PublicKeys :
              /\ expected # LastCert(Unwrap(r)).auth.subject
                    => Reference_validate(Unwrap(r), expected) = "Subject"
              /\ Reference_validate(Unwrap(r), expected) = "Ok"
                    => expected = LastCert(Unwrap(r)).auth.subject

\* validate returned Subject on a correctly signed chain of several
\* certificates, asked for the subject of a certificate that is not the last.
C15_Witness ==
    /\ call.op = "validate"
    /\ call.res = "Subject"
    /\ edits = 0
    /\ ValidForLast(Unwrap(r))
    /\ Len(Unwrap(r).certs) >= 2
    /\ Subjects(Unwrap(r)) # {LastCert(Unwrap(r)).auth.subject}

\* C16: if in a validly signed chain the capability of some certs[i] with
\* i > 0 is altered so that it is no longer a subset of certs[i-1]'s
\* capability (all earlier certificates untouched), validate(subject of the
\* last certificate) returns Capability: the capability check of a
\* certificate is made before its signature is verified.
C16_CapabilityBeforeSignature ==
    [][(/\ call'.op = "alter"
        /\ IsSome(r)
        /\ Len(Unwrap(r').certs) = Len(Unwrap(r).certs)
        /\ \E i \in 2 .. Len(Unwrap(r).certs) :
              LET c == Unwrap(r').certs[i].auth.capability
              IN /\ c # Unwrap(r).certs[i].auth.capability
                 /\ ~SubsetOf(c, Unwrap(r).certs[i - 1].auth.capability)
                 /\ Unwrap(r') = [Unwrap(r) EXCEPT !.certs[i].auth.capability = c]
        /\ ValidForLast(Unwrap(r)))
         => Reference_validate(Unwrap(r'), LastCert(Unwrap(r')).auth.subject)
               = "Capability"
      ]_vars

\* validate returned Capability on a chain one certificate of which, after
\* the first, holds a capability that is not a subset of its predecessor's
\* and is not the capability its signature covers; the chain validates with
\* the signed capability back.
C16_Witness ==
    /\ call.op = "validate"
    /\ call.res = "Capability"
    /\ edits = 1
    /\ LET ref == Unwrap(r)
       IN \E i \in 2 .. Len(ref.certs) :
             LET signed == ref.certs[i].signature.buf
             IN /\ ~SubsetOf(ref.certs[i].auth.capability,
                             ref.certs[i - 1].auth.capability)
                /\ Len(signed) = 5
                /\ signed # CanonicalPayload(ref, i)
                /\ ValidForLast([ref EXCEPT !.certs[i].auth.capability =
                                   [actions |-> signed[2], share |-> signed[3]]])

\* C17: in every reference on which validate succeeds, rights only narrow
\* along the chain: for all i < j, certs[j].capability.ops is contained in
\* certs[i].capability.share and certs[j].capability.share is contained in
\* certs[i].capability.share.
C17_RightsOnlyNarrow ==
    IsSome(r) =>
        \A s \in PublicKeys :
            Reference_validate(Unwrap(r), s) = "Ok" =>
                \A i \in 1 .. Len(Unwrap(r).certs), j \in 1 .. Len(Unwrap(r).certs) :
                    i < j =>
                        /\ Contained(Unwrap(r).certs[j].auth.capability.actions,
                                     Unwrap(r).certs[i].auth.capability.share)
                        /\ Contained(Unwrap(r).certs[j].auth.capability.share,
                                     Unwrap(r).certs[i].auth.capability.share)

\* validate accepted a chain of three certificates whose last capability is
\* strictly narrower than the first.
C17_Witness ==
    /\ call.op = "validate"
    /\ call.res = "Ok"
    /\ Len(Unwrap(r).certs) = 3
    /\ Unwrap(r).certs[3].auth.capability # Unwrap(r).certs[1].auth.capability
    /\ Unwrap(r).certs[1].auth.capability.share # 0

\* ------------------------------------------------------------ Unsafe<T>
\* Unsafe<T> with T = Reference and Context = Sign::Verifier.  Deserialize
\* for Unsafe<T> wraps whatever value the bytes decode to: a reference made
\* by Reference::new, or one whose issuer field was replaced.
Deserialized ==
    { [ref EXCEPT !.issuer = k] :
        ref \in { Unwrap(Reference_new(id, issuer, max_share, auth, TRUE).ref) :
                    id \in 1 .. NIds, issuer \in 1 .. NKeys,
                    max_share \in 0 .. MaxShare, auth \in Authorizations },
        k \in PublicKeys }

\* Unsafe::validate(self, context): Result<T, T::Error>
Unsafe_validate(inner, context) ==
    LET res == Reference_validate(inner, context)
    IN IF res = "Ok"
       THEN [ok |-> TRUE, value |-> inner]
       ELSE [ok |-> FALSE, err |-> res]

\* Deref for Unsafe: &self.0
Unsafe_deref(inner) == inner

\* let u: Unsafe<T> = deserialize(..)
UnsafeDeserialize ==
    /\ wrapped = None
    /\ \E value \in Deserialized : wrapped' = Some(value)
    /\ seen' = None
    /\ unsafeCall' = [op |-> "deserialize"]
    /\ UNCHANGED nonUnsafeVars

\* let x = &*u; the holder reads the value through the wrapper
UnsafeDeref ==
    /\ IsSome(wrapped)
    /\ seen' = Some(Unsafe_deref(Unwrap(wrapped)))
    /\ unsafeCall' = [op |-> "deref"]
    /\ UNCHANGED <<wrapped, nonUnsafeVars>>

\* u.max_share = m; a write through DerefMut::deref_mut
UnsafeDerefMut ==
    /\ IsSome(wrapped)
    /\ \E m \in 0 .. MaxShare :
          /\ m # Unwrap(wrapped).max_share
          /\ wrapped' = Some([Unwrap(wrapped) EXCEPT !.max_share = m])
    /\ unsafeCall' = [op |-> "deref_mut"]
    /\ UNCHANGED <<seen, nonUnsafeVars>>

\* u.validate(&context); u is moved
UnsafeValidate ==
    /\ IsSome(wrapped)
    /\ \E context \in PublicKeys :
          LET res == Unsafe_validate(Unwrap(wrapped), context)
          IN unsafeCall' =
               IF res.ok
               THEN [op |-> "validate", context |-> context, ok |-> TRUE,
                     value |-> res.value]
               ELSE [op |-> "validate", context |-> context, ok |-> FALSE,
                     err |-> res.err]
    /\ wrapped' = None
    /\ UNCHANGED <<seen, nonUnsafeVars>>

UnsafeInit ==
    /\ CapIdle
    /\ RefIdle
    /\ UnsafeIdle
    /\ CodecIdle
    /\ DispatchIdle
    /\ StreamIdle
    /\ ServiceIdle

UnsafeNext ==
    \/ UnsafeDeserialize
    \/ UnsafeDeref
    \/ UnsafeDerefMut
    \/ UnsafeValidate

SpecUnsafe == UnsafeInit /\ [][UnsafeNext]_vars

\* C18 as stated: the value wrapped in Unsafe<T> can leave the wrapper only
\* through validate(context): while the wrapper holds it (validate has not
\* returned), no step gives its holder the contents to read and no step
\* changes them; validate yields the inner value exactly when T::validate
\* succeeds and the error otherwise.
C18_OnlyExitIsValidate ==
    [][/\ (IsSome(wrapped) /\ seen' # seen) => seen' = None
       /\ (IsSome(wrapped) /\ IsSome(wrapped')) => wrapped' = wrapped
       /\ unsafeCall'.op = "validate" =>
             LET res == Reference_validate(Unwrap(wrapped), unsafeCall'.context)
             IN /\ unsafeCall'.ok <=> res = "Ok"
                /\ unsafeCall'.ok => unsafeCall'.value = Unwrap(wrapped)
                /\ ~unsafeCall'.ok => unsafeCall'.err = res
      ]_vars

\* --------------------------------------------------------- BincodeCodec
\* BincodeCodec<T> with T = String, as in the tests of rpc/codec.rs.  A byte
\* is a number in 0 .. 255, a buffer a sequence of bytes.
Alphabet == {97, 98}

\* The message bodies: strings of at most MaxItemLen characters.
Items == UNION { [1 .. n -> Alphabet] : n \in 0 .. MaxItemLen }

\* bincode::serialized_size(&size) for a u64
Bincode_serialized_size_u64 == 8

\* bincode::serialize(&n) for a u64 n < 2^32: eight bytes, little endian.
Bincode_serialize_u64(n) ==
    <<n % 256, (n \div 256) % 256, (n \div 65536) % 256,
      (n \div 16777216) % 256, 0, 0, 0, 0>>

\* bincode::deserialize::<usize>(buf) for a buf of eight bytes.  A value of
\* 2^31 or more is larger than the length of any buffer here and is kept at
\* 2^31 - 1: it is only compared with buffer lengths.
Bincode_deserialize_u64(buf) ==
    IF buf[4] >= 128 \/ \E i \in 5 .. 8 : buf[i] # 0
    THEN 2147483647
    ELSE buf[1] + 256 * buf[2] + 65536 * buf[3] + 16777216 * buf[4]

\* bincode::serialized_size(&item) for a String: length prefix and bytes.
Bincode_serialized_size(item) == Bincode_serialized_size_u64 + Len(item)

\* bincode::serialize(&item) for a String
Bincode_serialize_item(item) == Bincode_serialize_u64(Len(item)) \o item

\* bincode::deserialize::<String>(buf): Err when the length prefix or the
\* bytes it announces are missing; bytes after them are left out.
Bincode_deserialize_item(buf) ==
    IF Len(buf) < Bincode_serialized_size_u64
    THEN [ok |-> FALSE]
    ELSE LET n == Bincode_deserialize_u64(SubSeq(buf, 1, Bincode_serialized_size_u64))
         IN IF Len(buf) - Bincode_serialized_size_u64 < n
            THEN [ok |-> FALSE]
            ELSE [ok |-> TRUE,
                  item |-> SubSeq(buf, Bincode_serialized_size_u64 + 1,
                                  Bincode_serialized_size_u64 + n)]

\* Encoder::encode writing the length of the whole frame into the header.
BincodeCodec_encode_frame_size(item, dst) ==
    LET size == Bincode_serialized_size(item)
        header_size == Bincode_serialized_size_u64
    IN [res |-> "Ok",
        dst |-> dst \o Bincode_serialize_u64(size + header_size)
                    \o Bincode_serialize_item(item)]

\* Encoder for BincodeCodec: encode(item, dst); dst is resized by header and
\* body, which are then written over the new bytes.
BincodeCodec_encode(item, dst) ==
    LET size == Bincode_serialized_size(item)
        header_size == Bincode_serialized_size_u64
    IN [res |-> "Ok",
        dst |-> dst \o Bincode_serialize_u64(size) \o Bincode_serialize_item(item)]

\* Decoder::decode comparing the announced size with the length of the
\* buffer before the header is taken out of it (split_to panics when the
\* body is not all there).
BincodeCodec_decode_counts_header(src) ==
    LET header_size == Bincode_serialized_size_u64
    IN IF Len(src) < header_size
       THEN [res |-> "None", src |-> src]
       ELSE LET size == Bincode_deserialize_u64(SubSeq(src, 1, header_size))
                rest == SubSeq(src, header_size + 1, Len(src))
            IN IF Len(src) < size
               THEN [res |-> "None", src |-> rest]
               ELSE IF Len(rest) < size
               THEN [res |-> "Panic", src |-> rest]
               ELSE LET item == Bincode_deserialize_item(SubSeq(rest, 1, size))
                        left == SubSeq(rest, size + 1, Len(rest))
                    IN IF item.ok
                       THEN [res |-> "Item", item |-> item.item, src |-> left]
                       ELSE [res |-> "Err", src |-> left]

\* Decoder for BincodeCodec: decode(src).  Returns the outcome (Item for
\* Ok(Some(item)), None for Ok(None), Err) and src after the call.
BincodeCodec_decode(src) ==
    LET header_size == Bincode_serialized_size_u64
    IN IF Len(src) < header_size
       THEN [res |-> "None", src |-> src]
       ELSE LET size == Bincode_deserialize_u64(SubSeq(src, 1, header_size))
                rest == SubSeq(src, header_size + 1, Len(src))
            IN IF Len(rest) < size
               THEN [res |-> "None", src |-> rest]
               ELSE LET item == Bincode_deserialize_item(SubSeq(rest, 1, size))
                        left == SubSeq(rest, size + 1, Len(rest))
                    IN IF item.ok
                       THEN [res |-> "Item", item |-> item.item, src |-> left]
                       ELSE [res |-> "Err", src |-> left]

\* codec.encode(item, &mut buffer).  Frames are encoded into an empty buffer
\* or right after another frame, while the buffer has room.
CodecEncode ==
    /\ codecCall.op \in {"none", "encode"} \/ buffer = <<>>
    /\ \E item \in Items :
          LET res == BincodeCodec_encode(item, buffer)
          IN /\ Len(res.dst) + Len(tail) <=
                   MaxFrames * (2 * Bincode_serialized_size_u64 + MaxItemLen)
             /\ buffer' = res.dst
             /\ codecCall' = [op |-> "encode", res |-> res.res]
    /\ UNCHANGED <<tail, nonCodecVars>>

\* tail = buffer.split_off(at): the buffer keeps its first `at` bytes.  The
\* buffer is split right after it was encoded into, as the tests do.
CodecSplitOff ==
    /\ codecCall.op = "encode"
    /\ \E at \in 0 .. (Len(buffer) - 1) :
          /\ buffer' = SubSeq(buffer, 1, at)
          /\ tail' = SubSeq(buffer, at + 1, Len(buffer))
    /\ codecCall' = [op |-> "split_off", res |-> "none"]
    /\ UNCHANGED nonCodecVars

\* The bytes that were held back arrive: they are written after those the
\* buffer holds (Framed::poll_next reads into buffer[buffer_size..]).
CodecAppend ==
    /\ tail # <<>>
    /\ buffer' = buffer \o tail
    /\ tail' = <<>>
    /\ codecCall' = [op |-> "append", res |-> "none"]
    /\ UNCHANGED nonCodecVars

\* codec.decode(&mut buffer)
CodecDecode ==
    /\ LET res == BincodeCodec_decode(buffer)
       IN /\ buffer' = res.src
          /\ codecCall' = IF res.res = "Item"
                          THEN [op |-> "decode", res |-> "Item", item |-> res.item]
                          ELSE [op |-> "decode", res |-> res.res]
    /\ UNCHANGED <<tail, nonCodecVars>>

CodecInit ==
    /\ CapIdle
    /\ RefIdle
    /\ UnsafeIdle
    /\ CodecIdle
    /\ DispatchIdle
    /\ StreamIdle
    /\ ServiceIdle

CodecNext ==
    \/ CodecEncode
    \/ CodecSplitOff
    \/ CodecAppend
    \/ CodecDecode

SpecCodec == CodecInit /\ [][CodecNext]_vars

\* ------------------------------------------------------- Codec: claims
\* The sequences of one to MaxFrames items.
ItemSeqs == UNION { [1 .. n -> Items] : n \in 1 .. MaxFrames }

\* The buffer that holds the frames of xs, encoded in that order.
RECURSIVE Frames(_)
Frames(xs) ==
    IF Len(xs) = 0
    THEN <<>>
    ELSE BincodeCodec_encode(xs[Len(xs)], Frames(SubSeq(xs, 1, Len(xs) - 1))).dst

\* n successive decode calls on src: the outcomes, and src after them.
RECURSIVE Decode_n(_, _)
Decode_n(src, n) ==
    IF n = 0
    THEN [outcomes |-> <<>>, src |-> src]
    ELSE LET first == BincodeCodec_decode(src)
             others == Decode_n(first.src, n - 1)
         IN [outcomes |-> <<IF first.res = "Item" THEN Some(first.item) ELSE None>>
                            \o others.outcomes,
             src |-> others.src]

\* C19: for every sequence of items x1..xn encoded in that order into one
\* buffer with encode, n successive decode calls on that buffer return
\* x1..xn in the same order, each call consuming exactly one frame (8-byte
\* size header plus body), and leave the buffer empty.
C19_RoundTrip ==
    [][codecCall'.op = "decode" =>
         \A xs \in ItemSeqs :
            buffer = Frames(xs) =>
               /\ codecCall'.res = "Item"
               /\ codecCall'.item = xs[1]
               /\ buffer' = Frames(Tail(xs))
               /\ Len(buffer) - Len(buffer') = 8 + Len(Bincode_serialize_item(xs[1]))
               /\ Decode_n(buffer, Len(xs)) =
                     [outcomes |-> [i \in 1 .. Len(xs) |-> Some(xs[i])],
                      src |-> <<>>]
      ]_vars

\* decode returned the first of two different items and left exactly the
\* frame of the second in the buffer.
C19_Witness ==
    /\ codecCall.op = "decode"
    /\ codecCall.res = "Item"
    /\ codecCall.item \in Items
    /\ \E y \in Items :
          /\ y # codecCall.item
          /\ buffer = Frames(<<y>>)

\* C20: decode on a buffer that holds any strict prefix of one encoded
\* frame, of any length from 0 to frame length - 1, returns the need-more
\* outcome Ok(None), never an item and never an error.
C20_PrefixNeedsMore ==
    [][codecCall'.op = "decode" =>
         \A x \in Items :
            \A n \in 0 .. (Len(Frames(<<x>>)) - 1) :
               buffer = SubSeq(Frames(<<x>>), 1, n) => codecCall'.res = "None"
      ]_vars

\* decode returned Ok(None) on a frame cut inside its body: the header was
\* there, and what is left in the buffer is the part of the body that was.
C20_Witness ==
    /\ codecCall.op = "decode"
    /\ codecCall.res = "None"
    /\ buffer # <<>>
    /\ \E x \in Items :
          \E n \in 9 .. (Len(Frames(<<x>>)) - 1) :
             buffer = SubSeq(Frames(<<x>>), 9, n)

\* C21 as stated: a decode call that returns need-more leaves the input
\* buffer byte-for-byte unchanged, so that after the remaining bytes of the
\* frame are appended to the same buffer the next decode returns the
\* original message, for every split point of the frame.
C21_Restartable ==
    [][(codecCall'.op = "decode" /\ codecCall'.res = "None") =>
          /\ buffer' = buffer
          /\ \A x \in Items :
                Frames(<<x>>) = buffer \o tail =>
                   LET next == BincodeCodec_decode(buffer' \o tail)
                   IN /\ next.res = "Item"
                      /\ next.item = x
      ]_vars

(***************************************************************************)
(* Dispatch (rpc/dispatch.rs): handlers by id, a counter of running        *)
(* dispatches, one-shot handlers.  A call of the async fn dispatch is a    *)
(* sequence of steps; between two steps other callers may run.             *)
(***************************************************************************)

\* A registered handler: the function and the `once` flag.
Handler(func, once) == [func |-> func, once |-> once]

\* Dispatch::new: no handler, counter at zero.
Dispatch_new(max) ==
    [handlers |-> [id \in HandlerIds |-> None], count |-> 0, max_count |-> max]

\* The test at the head of dispatch: a limit is set and the counter reached it.
Dispatch_limit_reached(cnt, max) ==
    IsSome(max) /\ cnt >= Unwrap(max)

\* Dispatch::add: BTreeMap::insert stores the new handler under id and returns
\* the previous one; a previous handler turns the result into NotFound.
Dispatch_add(hs, lockPoisoned, id, func, once) ==
    IF lockPoisoned
    THEN [handlers |-> hs, res |-> "Internal"]
    ELSE [handlers |-> [hs EXCEPT ![id] = Some(Handler(func, once))],
          res |-> IF hs[id] = None THEN "Ok" ELSE "NotFound"]

\* Dispatch::remove: BTreeMap::remove under the write lock.
Dispatch_remove(hs, id) ==
    [hs EXCEPT ![id] = None]

\* A lookup that takes the handler out of a poisoned lock and calls it before
\* it returns Internal.
Dispatch_get_into_poisoned(hs, lockPoisoned, id) ==
    IF hs[id] = None
    THEN [res |-> IF lockPoisoned THEN "Internal" ELSE "NotFound",
          handler |-> None]
    ELSE [res |-> IF lockPoisoned THEN "Internal" ELSE "Some",
          handler |-> hs[id]]

\* The lookup of dispatch under the read lock: which handler it invokes, if any,
\* and the error it returns otherwise.
Dispatch_get(hs, lockPoisoned, id) ==
    IF lockPoisoned
    THEN [res |-> "Internal", handler |-> None]
    ELSE IF hs[id] = None
         THEN [res |-> "NotFound", handler |-> None]
         ELSE [res |-> "Some", handler |-> hs[id]]

\* A read guard bound in the body of dispatch: it lives from the lookup to the
\* return of the call.
Dispatch_guard_held_to_return(pc) ==
    pc \in {"lookup", "awaiting", "awaited", "removed"}

\* The positions of a dispatch call at which it holds the read guard on
\* `handlers`: the guard is a local of the lookup block and is dropped at the
\* block's end, before fut.await.  The block has no await and is one step
\* (DispatchLookup), so no position between two steps is inside it.
Dispatch_guard_held(pc) ==
    pc = "lookup"

\* handlers.write() returns without blocking: no dispatch call holds a read
\* guard.
Dispatch_write_free(ts) ==
    \A t \in Tasks : ~Dispatch_guard_held(ts[t].pc)

\* One more invocation of a registered function (the log tells zero, one, many).
Invoked(entry) ==
    [entry EXCEPT !.calls = IF entry.calls < 2 THEN entry.calls + 1 ELSE 2]

\* add(id, func, once), called from outside the dispatches.
DispatchAdd ==
    \E id \in HandlerIds, f \in Funcs, once \in BOOLEAN :
       LET res == Dispatch_add(handlers, poisoned, id, f, once)
       IN /\ log[f] = None
          /\ Dispatch_write_free(tasks)
          /\ handlers' = res.handlers
          /\ log' = IF res.res = "Internal"
                    THEN log
                    ELSE [log EXCEPT ![f] =
                             Some([id |-> id, once |-> once, calls |-> 0])]
          /\ dcall' = [op |-> "add", id |-> id, res |-> res.res]
          /\ UNCHANGED <<count, max_count, poisoned, tasks, nonDispatchVars>>

\* remove(id), called from outside the dispatches; unwrap panics on a
\* poisoned lock.
DispatchRemove ==
    \E id \in HandlerIds :
       /\ Dispatch_write_free(tasks)
       /\ handlers' = IF poisoned THEN handlers ELSE Dispatch_remove(handlers, id)
       /\ dcall' = [op |-> "remove", id |-> id,
                    res |-> IF poisoned THEN "Panic" ELSE "Ok"]
       /\ UNCHANGED <<count, max_count, poisoned, tasks, log, nonDispatchVars>>

\* A holder of the public handlers lock panics while writing: the lock is
\* poisoned from then on.
DispatchPoison ==
    /\ ~poisoned
    /\ poisoned' = TRUE
    /\ UNCHANGED <<handlers, count, max_count, tasks, log, dcall, nonDispatchVars>>

\* dispatch, first step: the load of the counter and its comparison with
\* max_count.
DispatchCheck ==
    \E t \in Tasks, id \in HandlerIds :
       /\ tasks[t].pc = "idle"
       /\ count < MaxCount + NTasks
       /\ tasks' = [tasks EXCEPT ![t] =
                       IF Dispatch_limit_reached(count, max_count)
                       THEN TaskIdle("LimitReached")
                       ELSE [pc |-> "checked", id |-> id, func |-> 0,
                             once |-> FALSE, res |-> "none"]]
       /\ UNCHANGED <<handlers, count, max_count, poisoned, log, dcall,
                      nonDispatchVars>>

\* dispatch, second step: count.fetch_add(1).
DispatchFetchAdd ==
    \E t \in Tasks :
       /\ tasks[t].pc = "checked"
       /\ count' = count + 1
       /\ tasks' = [tasks EXCEPT ![t].pc = "counted"]
       /\ UNCHANGED <<handlers, max_count, poisoned, log, dcall, nonDispatchVars>>

\* dispatch, third step: the lookup under the read lock; a found handler's
\* function is called there and returns the future.
DispatchLookup ==
    \E t \in Tasks :
       LET id == tasks[t].id
           got == Dispatch_get(handlers, poisoned, id)
       IN /\ tasks[t].pc = "counted"
          /\ log' = IF IsSome(got.handler)
                    THEN [log EXCEPT ![Unwrap(got.handler).func] =
                             Some(Invoked(Unwrap(@)))]
                    ELSE log
          /\ tasks' = [tasks EXCEPT ![t] =
                          IF got.res = "Some"
                          THEN [pc |-> "awaiting", id |-> id,
                                func |-> Unwrap(got.handler).func,
                                once |-> Unwrap(got.handler).once,
                                res |-> "none"]
                          ELSE TaskIdle(got.res)]
          /\ UNCHANGED <<handlers, count, max_count, poisoned, dcall,
                         nonDispatchVars>>

\* dispatch, fourth step: fut.await completes.
DispatchAwait ==
    \E t \in Tasks :
       /\ tasks[t].pc = "awaiting"
       /\ tasks' = [tasks EXCEPT ![t].pc = "awaited"]
       /\ UNCHANGED <<handlers, count, max_count, poisoned, log, dcall,
                      nonDispatchVars>>

\* dispatch, fifth step: `if once { self.remove(&id) }`; remove panics on a
\* poisoned lock and the call ends there.
DispatchRemoveOnce ==
    \E t \in Tasks :
       /\ tasks[t].pc = "awaited"
       /\ tasks[t].once => Dispatch_write_free(tasks)
       /\ handlers' = IF tasks[t].once /\ ~poisoned
                      THEN Dispatch_remove(handlers, tasks[t].id)
                      ELSE handlers
       /\ tasks' = [tasks EXCEPT ![t] =
                       IF tasks[t].once /\ poisoned
                       THEN TaskIdle("Panic")
                       ELSE [@ EXCEPT !.pc = "removed"]]
       /\ UNCHANGED <<count, max_count, poisoned, log, dcall, nonDispatchVars>>

\* dispatch, last step: count.fetch_sub(1) and Ok(()).
DispatchFetchSub ==
    \E t \in Tasks :
       /\ tasks[t].pc = "removed"
       /\ count' = count - 1
       /\ tasks' = [tasks EXCEPT ![t] = TaskIdle("Ok")]
       /\ UNCHANGED <<handlers, max_count, poisoned, log, dcall, nonDispatchVars>>

\* Dispatch::new(max_count) for no limit or a limit up to MaxCount.
DispatchInit ==
    /\ CapIdle
    /\ RefIdle
    /\ UnsafeIdle
    /\ CodecIdle
    /\ StreamIdle
    /\ ServiceIdle
    /\ max_count \in {None} \cup {Some(n) : n \in 0 .. MaxCount}
    /\ handlers = Dispatch_new(max_count).handlers
    /\ count = Dispatch_new(max_count).count
    /\ poisoned = FALSE
    /\ tasks = [t \in Tasks |-> TaskIdle("none")]
    /\ log = [f \in Funcs |-> None]
    /\ dcall = [op |-> "none"]

DispatchNext ==
    \/ DispatchAdd
    \/ DispatchRemove
    \/ DispatchPoison
    \/ DispatchCheck
    \/ DispatchFetchAdd
    \/ DispatchLookup
    \/ DispatchAwait
    \/ DispatchRemoveOnce
    \/ DispatchFetchSub

SpecDispatch == DispatchInit /\ [][DispatchNext]_vars

\* The dispatches whose handler was invoked and whose future has not completed.
Running == {t \in Tasks : tasks[t].pc = "awaiting"}

\* C22: with max_count = N, at every moment at most N handler invocations are
\* started and not completed, and the counter is at most N.
C22_AtMostN ==
    IsSome(max_count) =>
       /\ Cardinality(Running) <= Unwrap(max_count)
       /\ count <= Unwrap(max_count)

\* No caller is inside dispatch.
AllIdle == \A t \in Tasks : tasks[t].pc = "idle"

\* A function registered with once = true under id was invoked.
OnceCalled(id) ==
    \E f \in Funcs :
       /\ IsSome(log[f])
       /\ Unwrap(log[f]).id = id
       /\ Unwrap(log[f]).once
       /\ Unwrap(log[f]).calls >= 1

\* The id has a handler registered with once = false.
Permanent(id) == IsSome(handlers[id]) /\ ~Unwrap(handlers[id]).once

\* C23: after a dispatch to a once handler returned Ok its id has no handler
\* and a later dispatch to it returns NotFound; a handler with once = false
\* stays registered and a later dispatch to its id invokes it.  Read for
\* dispatches made one at a time, on a healthy lock, with no limit or a limit
\* of at least one:
\*   - the removal step of a once dispatch leaves the id without handler, the
\*     one of another dispatch leaves the map alone;
\*   - a call started while nobody is inside dispatch, for an id whose once
\*     handler was invoked and is gone or whose handler is permanent, gets
\*     past the limit test;
\*   - its lookup returns NotFound for the id without handler and invokes the
\*     permanent handler, which stays.
C23_OnceThenNotFound ==
    [][\A t \in Tasks :
          /\ (tasks[t].pc = "awaited" /\ tasks'[t] # tasks[t] /\ ~poisoned) =>
                IF tasks[t].once
                THEN handlers'[tasks[t].id] = None
                ELSE handlers' = handlers
          /\ ( /\ AllIdle
               /\ ~poisoned
               /\ tasks'[t] # tasks[t]
               /\ IsSome(max_count) => Unwrap(max_count) >= 1
               /\ \E id \in HandlerIds :
                     \/ handlers[id] = None /\ OnceCalled(id)
                     \/ Permanent(id) ) =>
                tasks'[t].pc = "checked"
          /\ (tasks[t].pc = "counted" /\ tasks'[t] # tasks[t] /\ ~poisoned) =>
                LET id == tasks[t].id
                IN /\ handlers[id] = None =>
                         tasks'[t] = TaskIdle("NotFound")
                   /\ Permanent(id) =>
                         /\ tasks'[t].pc = "awaiting"
                         /\ tasks'[t].func = Unwrap(handlers[id]).func
                         /\ handlers'[id] = handlers[id]
      ]_vars

\* C24: a function registered with once = true is invoked at most once,
\* whatever the interleaving of the dispatches to its id.
C24_OnceAtMostOnce ==
    \A f \in Funcs :
       (IsSome(log[f]) /\ Unwrap(log[f]).once) => Unwrap(log[f]).calls <= 1

\* The errors dispatch returns.
DispatchErrors == {"NotFound", "LimitReached", "Internal"}

\* C25: a dispatch call that returns NotFound, LimitReached or Internal leaves
\* the handler map as it was and invokes no handler: the call returns from the
\* limit test or from the lookup, and each of its steps up to there leaves the
\* map and the invocations of every function unchanged.
C25_ErrorLeavesMap ==
    [][\A t \in Tasks :
          ( /\ tasks'[t] # tasks[t]
            /\ \/ tasks'[t].pc \in {"checked", "counted"}
               \/ tasks'[t].pc = "idle" /\ tasks'[t].res \in DispatchErrors ) =>
             /\ handlers' = handlers
             /\ log' = log
             /\ tasks[t].pc \in {"idle", "checked", "counted"}
      ]_vars

\* One caller got NotFound and the other LimitReached while a handler is
\* registered and was invoked before.
C25_Witness ==
    /\ \E t \in Tasks : tasks[t] = TaskIdle("NotFound")
    /\ \E t \in Tasks : tasks[t] = TaskIdle("LimitReached")
    /\ \E id \in HandlerIds :
          /\ IsSome(handlers[id])
          /\ IsSome(log[Unwrap(handlers[id]).func])
          /\ Unwrap(log[Unwrap(handlers[id]).func]).calls >= 1

\* C26: add for an id that already has a handler fails with NotFound and has
\* no effect: the map still holds the earlier handler, with its once flag, for
\* a later dispatch to invoke.
C26_AddExistingNoEffect ==
    [][\A id \in HandlerIds :
          ( /\ dcall' = [op |-> "add", id |-> id, res |-> "NotFound"]
            /\ log' # log ) =>
             /\ IsSome(handlers[id])
             /\ handlers' = handlers
      ]_vars

(***************************************************************************)
(* Dispatch::dispatch_stream (rpc/dispatch.rs) and the Framed reader       *)
(* (rpc/codec.rs) it decodes the handler id with.                          *)
(***************************************************************************)

\* The capacity Framed::new passes to with_capacity; it becomes chunk_size.
Framed_chunk_size == 128

\* Framed::with_capacity: the buffer field is BytesMut::new(), empty and with
\* capacity zero; the buffer built with the capacity is a local that is dropped.
Framed_new ==
    [buffer |-> <<>>, capacity |-> 0, chunk_size |-> Framed_chunk_size]

\* The runs of bytes that may follow the id frame.
Tails == UNION { [1 .. n -> Alphabet] : n \in 0 .. MaxTail }

\* n zero bytes, as BytesMut::resize(len, 0) appends them.
Zeros(n) == [i \in 1 .. n |-> 0]

\* Framed::poll_next, head: the buffer is grown by chunk_size only when
\* len + chunk_size < capacity; the reader is given buffer[buffer_size..].
Framed_room(buf, cap) ==
    IF Len(buf) + Framed_chunk_size < cap THEN Framed_chunk_size ELSE 0

\* The capacity after the resize calls of poll_next.
Framed_capacity(cap, len) ==
    IF len > cap THEN len ELSE cap

\* codec.next().await and what follows it in dispatch_stream: one poll of the
\* Framed reader; the AsyncRead returns Ready(Ok(n)) with n at most the length
\* of the slice it was given, Pending, or Ready(Err).  A decoded id ends the
\* wait: into_inner returns the reader alone, and dispatch gets it.
StreamPoll ==
    /\ streamCall.res \in {"none", "Pending"}
    /\ LET room == Framed_room(fbuffer, fcapacity)
           grown == fbuffer \o Zeros(room)
       IN \/ \E n \in 0 .. room :
                LET read == SubSeq(wire, rpos + 1, rpos + n)
                    dec == BincodeCodec_decode(fbuffer \o read)
                IN /\ rpos + n <= Len(wire)
                   /\ rpos' = rpos + n
                   /\ fbuffer' = dec.src
                   /\ fcapacity' = Framed_capacity(fcapacity, Len(grown))
                   /\ handed' = IF dec.res = "Item"
                                THEN Some([id |-> dec.item,
                                           bytes |-> SubSeq(wire, rpos' + 1, Len(wire))])
                                ELSE handed
                   /\ streamCall' =
                         [res |-> CASE dec.res = "Item" -> "Dispatched"
                                    [] dec.res = "None" -> "Pending"
                                    [] OTHER -> "InvalidData",
                          read |-> "Ok"]
          \/ /\ fbuffer' = grown
             /\ fcapacity' = Framed_capacity(fcapacity, Len(grown))
             /\ streamCall' = [res |-> "Pending", read |-> "Pending"]
             /\ UNCHANGED <<rpos, handed>>
          \/ /\ fbuffer' = grown
             /\ fcapacity' = Framed_capacity(fcapacity, Len(grown))
             /\ streamCall' = [res |-> "InvalidData", read |-> "Err"]
             /\ UNCHANGED <<rpos, handed>>
    /\ UNCHANGED <<wire, yielded, sent, written, sinkCall, nonStreamVars>>

\* dispatch_stream is called with a stream on which the peer wrote the frame of
\* a handler id and the first bytes for the handler; Framed::new wraps it.
StreamInit ==
    /\ CapIdle
    /\ RefIdle
    /\ UnsafeIdle
    /\ CodecIdle
    /\ DispatchIdle
    /\ ServiceIdle
    /\ \E id \in Items, tl \in Tails : wire = Frames(<<id>>) \o tl
    /\ rpos = 0
    /\ fbuffer = Framed_new.buffer
    /\ fcapacity = Framed_new.capacity
    /\ handed = None
    /\ streamCall = [res |-> "none", read |-> "none"]
    /\ FramedIdle

StreamNext == StreamPoll

\* The task that awaits dispatch_stream is polled again as long as a poll can
\* change anything.
SpecStream == StreamInit /\ [][StreamNext]_vars /\ WF_vars(StreamNext)

\* The handler was given the id of the frame and a reader that yields every
\* byte written after the id frame, from the first one on.
HandedTail ==
    \E id \in Items, tl \in Tails :
       /\ wire = Frames(<<id>>) \o tl
       /\ handed = Some([id |-> id, bytes |-> tl])

\* C27: dispatch_stream hands the handler every byte that follows the id frame
\* on the stream, starting with the first one; only a failing reader keeps the
\* stream from its handler.
C27_TailReachesHandler ==
    <>(streamCall.read = "Err" \/ HandedTail)

(***************************************************************************)
(* Framed as a Stream (rpc/codec.rs): a consumer polls poll_next until it  *)
(* returns Ready(None).  The peer has written `wire` and closed its end:   *)
(* the reader delivers these bytes and then reports EOF with Ok(0).        *)
(***************************************************************************)

\* What the peer wrote before it closed: one to MaxFrames frames, or the first
\* bytes of them (nothing at all, or a last frame cut short).
Wires ==
    UNION { { SubSeq(Frames(xs), 1, n) : n \in 0 .. Len(Frames(xs)) } :
            xs \in ItemSeqs }

\* The items of the complete frames at the head of src, in order.
RECURSIVE FramedItems(_)
FramedItems(src) ==
    LET first == BincodeCodec_decode(src)
    IN IF first.res = "Item"
       THEN <<first.item>> \o FramedItems(first.src)
       ELSE <<>>

\* Framed::poll_next, the match on poll_read's Ready(Ok(size)): the buffer is
\* cut to what it held plus the size bytes read, and decode is called once on
\* it: Ok(Some(item)) is Ready(Some(item)), Ok(None) is Pending, Err is
\* Ready(None).
Framed_poll_next_read(buf, read) ==
    LET dec == BincodeCodec_decode(buf \o read)
    IN [buffer |-> dec.src,
        res |-> CASE dec.res = "Item" -> "Item"
                  [] dec.res = "None" -> "Pending"
                  [] OTHER -> "End",
        yield |-> CASE dec.res = "Item" -> <<Some(dec.item)>>
                    [] dec.res = "None" -> <<>>
                    [] OTHER -> <<None>>]

\* poll_next when poll_read returns Ready(Ok(n)): the reader fills at most the
\* slice buffer[buffer_size..] it is given; it returns 0 for an empty slice
\* and at EOF.
FramedPollRead ==
    /\ streamCall.res # "End"
    /\ LET room == Framed_room(fbuffer, fcapacity)
           grown == fbuffer \o Zeros(room)
       IN \E n \in 0 .. room :
             LET step == Framed_poll_next_read(
                             fbuffer, SubSeq(wire, rpos + 1, rpos + n))
             IN /\ rpos + n <= Len(wire)
                /\ n = 0 => (room = 0 \/ rpos = Len(wire))
                /\ rpos' = rpos + n
                /\ fbuffer' = step.buffer
                /\ fcapacity' = Framed_capacity(fcapacity, Len(grown))
                /\ yielded' = yielded \o step.yield
                /\ streamCall' = [res |-> step.res, read |-> "Ok"]
    /\ UNCHANGED <<wire, handed, sent, written, sinkCall, nonStreamVars>>

\* poll_next when poll_read returns Pending: poll_next returns Pending.
FramedPollPending ==
    /\ streamCall.res # "End"
    /\ LET grown == fbuffer \o Zeros(Framed_room(fbuffer, fcapacity))
       IN /\ fbuffer' = grown
          /\ fcapacity' = Framed_capacity(fcapacity, Len(grown))
    /\ streamCall' = [res |-> "Pending", read |-> "Pending"]
    /\ UNCHANGED <<wire, rpos, handed, yielded, sent, written, sinkCall,
                   nonStreamVars>>

\* poll_next when poll_read returns Ready(Err): poll_next returns Ready(None).
FramedPollErr ==
    /\ streamCall.res # "End"
    /\ LET grown == fbuffer \o Zeros(Framed_room(fbuffer, fcapacity))
       IN /\ fbuffer' = grown
          /\ fcapacity' = Framed_capacity(fcapacity, Len(grown))
    /\ yielded' = Append(yielded, None)
    /\ streamCall' = [res |-> "End", read |-> "Err"]
    /\ UNCHANGED <<wire, rpos, handed, sent, written, sinkCall, nonStreamVars>>

\* BincodeCodec::framed_read(reader): Framed::new around a reader on which the
\* peer wrote and which it closed.
FramedInit ==
    /\ CapIdle
    /\ RefIdle
    /\ UnsafeIdle
    /\ CodecIdle
    /\ DispatchIdle
    /\ ServiceIdle
    /\ FramedIdle
    /\ wire \in Wires
    /\ rpos = 0
    /\ fbuffer = Framed_new.buffer
    /\ fcapacity = Framed_new.capacity
    /\ handed = None
    /\ streamCall = [res |-> "none", read |-> "none"]

FramedNext ==
    \/ FramedPollRead
    \/ FramedPollPending
    \/ FramedPollErr

\* The consumer is polled again and the reader, unless it fails, delivers in
\* the end: a poll in which the reader answers is taken whenever it would
\* change anything.
SpecFramed == FramedInit /\ [][FramedNext]_vars /\ WF_vars(FramedPollRead)

\* C33: a Framed stream yields every complete frame the underlying reader
\* has, in arrival order and exactly once, however the bytes are chunked
\* across reads; only a failing reader keeps a frame from the consumer.
C33_YieldsEveryFrame ==
    <>( \/ streamCall.read = "Err"
        \/ \A i \in 1 .. Len(FramedItems(wire)) :
              /\ Len(yielded) >= i
              /\ yielded[i] = Some(FramedItems(wire)[i]) )

\* C34: when the underlying reader reaches EOF, or a frame cannot be decoded,
\* the Framed stream eventually yields end-of-stream (None) to its consumer.
C34_EndOfStreamYielded ==
    <>(yielded # <<>> /\ yielded[Len(yielded)] = None)

(***************************************************************************)
(* Framed as a Sink (rpc/codec.rs): start_send encodes into the buffer,    *)
(* poll_flush passes the buffer to poll_write of the AsyncWrite.           *)
(***************************************************************************)

\* What poll_write may return for a buffer of len bytes: Ready(Ok(size)) with
\* size at most len, Pending, or Ready(Err).
PollWrites(len) ==
    {[kind |-> "Ok", size |-> n] : n \in 0 .. len}
        \cup {[kind |-> "Pending", size |-> 0], [kind |-> "Err", size |-> 0]}

\* Framed::poll_flush after poll_write returned poll for the buffer buf, which
\* was swapped out of this.buffer: this.buffer is the empty BytesMut::new()
\* while the match runs, and this.buffer.split_at(size) panics for a size
\* beyond its length (the swap back is then not reached).  The result, and
\* this.buffer after the call.
Framed_poll_flush(buf, poll) ==
    LET swapped == <<>>
    IN CASE poll.kind = "Ok" ->
               IF poll.size > Len(swapped)
               THEN [res |-> "Panic", buffer |-> swapped]
               ELSE [res |-> IF Len(SubSeq(swapped, 1, poll.size)) > 0
                             THEN "Pending"
                             ELSE "Ok",
                     buffer |-> buf]
         [] poll.kind = "Err" -> [res |-> "Err", buffer |-> buf]
         [] OTHER -> [res |-> "Pending", buffer |-> buf]

\* start_send(item): the item's frame is encoded after what the buffer holds.
SinkStartSend ==
    /\ sinkCall.res # "Panic"
    /\ Len(sent) < MaxFrames
    /\ \E item \in Items :
          LET res == BincodeCodec_encode(item, fbuffer)
          IN /\ fbuffer' = res.dst
             /\ fcapacity' = Framed_capacity(fcapacity, Len(res.dst))
             /\ sent' = Append(sent, item)
             /\ sinkCall' = [op |-> "start_send", res |-> res.res]
    /\ UNCHANGED <<wire, rpos, handed, streamCall, yielded, written,
                   nonStreamVars>>

\* poll_flush: the writer is offered the whole buffer and accepts the first
\* size bytes of it, is not ready, or fails.
SinkPollFlush ==
    /\ sinkCall.res # "Panic"
    /\ \E poll \in PollWrites(Len(fbuffer)) :
          LET res == Framed_poll_flush(fbuffer, poll)
          IN /\ written' = written \o SubSeq(fbuffer, 1, poll.size)
             /\ fbuffer' = res.buffer
             /\ sinkCall' = [op |-> "poll_flush", res |-> res.res]
    /\ UNCHANGED <<wire, rpos, fcapacity, handed, streamCall, yielded, sent,
                   nonStreamVars>>

\* BincodeCodec::framed_write(writer): Framed::new around a writer.
SinkInit ==
    /\ CapIdle
    /\ RefIdle
    /\ UnsafeIdle
    /\ CodecIdle
    /\ DispatchIdle
    /\ StreamIdle
    /\ ServiceIdle

SinkNext ==
    \/ SinkStartSend
    \/ SinkPollFlush

SpecSink == SinkInit /\ [][SinkNext]_vars

\* C35: through a Framed sink the bytes written to the writer, followed by
\* those still in the buffer, are exactly the concatenation of the encoded
\* frames of the items sent, in send order (each byte is written once, none is
\* lost, also when the writer accepts part of the buffer); a flush returns,
\* and it reports completion only when no encoded byte remains unwritten.
C35_WritesExactlyTheFrames ==
    /\ written \o fbuffer = Frames(sent)
    /\ sinkCall.res # "Panic"
    /\ sinkCall = [op |-> "poll_flush", res |-> "Ok"] => written = Frames(sent)

(***************************************************************************)
(* Service::serve (rpc/service.rs) over a pair of mpsc channels, with the  *)
(* Service implementation and the Client that #[service] generates for     *)
(* tests::simple_service.  A u32 is written by its two's-complement        *)
(* representative, so that wrapping + and - are + and - on the small       *)
(* values used here (0 - 1 is -1, the representative of 4294967295).       *)
(***************************************************************************)

\* The methods of simple_service and those declared with an output.
Methods == {"clear", "add", "sub", "get"}
WithOutput == {"add", "sub", "get"}

\* The arguments the client passes.
Args == 1 .. MaxArg

\* The Request variants: one per method, carrying its inputs.
Request(method, arg) == [method |-> method, arg |-> arg]
Requests ==
    {Request("clear", 0), Request("get", 0)} \cup
    {Request(m, x) : m \in {"add", "sub"}, x \in Args}

\* The Response variants: one per method, carrying its output.
Response(method, value) == [method |-> method, out |-> value]

\* Message::Request and Message::Response.
Message_Request(req) == [kind |-> "Request", body |-> req]
Message_Response(resp) == [kind |-> "Response", body |-> resp]

\* What reaches the service for a message the client sent, and what reaches
\* the client for a response the service sent: the transport pairs the
\* client's sink and stream with the service's Request and Response.
ServiceMessage_request(msg) == msg.body
ServiceMessage_response(resp) == Message_Response(resp)

\* The methods of simple_service::Service on the field a: the new value of a
\* and the value returned.
Service_method(a, req) ==
    CASE req.method = "clear" -> [a |-> 0, out |-> 0]
      [] req.method = "add" -> [a |-> a + req.arg, out |-> a + req.arg]
      [] req.method = "sub" -> [a |-> a - req.arg, out |-> a - req.arg]
      [] OTHER -> [a |-> a, out |-> a]

\* A generated dispatch that answers every request, also those of methods
\* without output.
Service_dispatch_always_responds(a, req) ==
    LET done == Service_method(a, req)
    IN [a |-> done.a, resp |-> Some(Response(req.method, done.out))]

\* The generated Service::dispatch: the method is run; a method without output
\* gives None, one with an output gives Some(Response::Method(output)).
Service_dispatch(a, req) ==
    LET done == Service_method(a, req)
    IN [a |-> done.a,
        resp |-> IF req.method \in WithOutput
                 THEN Some(Response(req.method, done.out))
                 ELSE None]

\* A serve loop that sends a response for every request, a default one when
\* dispatch returned None.
Service_serve_always_sends(req, resp) ==
    [pc |-> "send",
     resp |-> IF IsSome(resp) THEN Unwrap(resp) ELSE Response(req.method, 0)]

\* Service::serve, after dispatch(req).await: Some(resp) goes to
\* transport.send, None goes back to the head of the loop.
Service_serve_match(req, resp) ==
    IF IsSome(resp)
    THEN [pc |-> "send", resp |-> Unwrap(resp)]
    ELSE [pc |-> "top"]

\* Service::serve, the pattern of the while let on the pair of what is_alive()
\* returned and what transport.next().await yielded: (true, Some(req)) enters
\* the body, any other pair ends the loop.
Service_serve_while(alive, next) ==
    IF alive /\ IsSome(next)
    THEN [pc |-> "dispatch", req |-> Unwrap(next)]
    ELSE [pc |-> "done", why |-> IF alive THEN "end" ELSE "stopped"]

\* A serve loop that goes on with the next request after a failed send.
Service_serve_sent_continue(ok) ==
    [pc |-> "top"]

\* Service::serve, the match on transport.send(resp).await: Ok goes back to
\* the head of the loop, Err breaks it.
Service_serve_sent(ok) ==
    IF ok THEN [pc |-> "top"] ELSE [pc |-> "done", why |-> "push"]

\* The generated Client method, after transport.next().await: the payload of
\* the response of the method's own variant, Err(()) for anything else.
Client_result(method, msg) ==
    IF /\ IsSome(msg)
       /\ Unwrap(msg).kind = "Response"
       /\ Unwrap(msg).body.method = method
    THEN [ok |-> TRUE, value |-> Unwrap(msg).body.out]
    ELSE [ok |-> FALSE, value |-> 0]

\* A call of a client method: Message::Request(variant) is sent; a method
\* with an output then awaits the next message, one without returns.
ClientCall ==
    \E req \in Requests :
       /\ cli.pc = "idle"
       /\ Len(hist.calls) < MaxCalls
       /\ reqQ' = IF srv.pc = "done" THEN reqQ
                  ELSE Append(reqQ, Message_Request(req))
       /\ cli' = IF req.method \in WithOutput
                 THEN [pc |-> "awaiting", method |-> req.method]
                 ELSE [pc |-> "idle", method |-> "none"]
       /\ hist' = [hist EXCEPT
                      !.calls = Append(@, req),
                      !.results = IF req.method \in WithOutput
                                  THEN @
                                  ELSE Append(@, [ok |-> TRUE, value |-> 0])]
       /\ UNCHANGED <<svc, respQ, srv, nonServiceVars>>

\* transport.next().await of a client method returns: the next message of the
\* channel, or None when the service has left and the channel is empty.
ClientRecv ==
    /\ cli.pc = "awaiting"
    /\ respQ # <<>> \/ srv.pc = "done"
    /\ LET msg == IF respQ # <<>> THEN Some(Head(respQ)) ELSE None
       IN hist' = [hist EXCEPT
                      !.results = Append(@, Client_result(cli.method, msg))]
    /\ respQ' = IF respQ # <<>> THEN Tail(respQ) ELSE respQ
    /\ cli' = [pc |-> "idle", method |-> "none"]
    /\ UNCHANGED <<svc, reqQ, srv, nonServiceVars>>

\* The client is dropped, between two calls or while it awaits an answer, and
\* its ends of the channels with it.
ClientDrop ==
    /\ cli.pc \in {"idle", "awaiting"}
    /\ cli' = [pc |-> "dropped", method |-> "none"]
    /\ UNCHANGED <<svc, reqQ, respQ, srv, hist, nonServiceVars>>

\* serve, head of the loop, first component of the pair: self.is_alive() is
\* called and its value kept; transport.next() is awaited next, whatever the
\* value.
ServeAlive ==
    /\ srv.pc = "top"
    /\ srv' = [pc |-> "next", alive |-> svc.alive]
    /\ UNCHANGED <<svc, reqQ, respQ, cli, hist, nonServiceVars>>

\* serve, head of the loop, second component of the pair and the pattern:
\* transport.next().await yields the oldest request, taken out of the channel,
\* or None once the client is dropped and the channel is empty.
ServeNext ==
    /\ srv.pc = "next"
    /\ reqQ # <<>> \/ cli.pc = "dropped"
    /\ srv' = Service_serve_while(
                 srv.alive,
                 IF reqQ # <<>>
                 THEN Some(ServiceMessage_request(Head(reqQ)))
                 ELSE None)
    /\ reqQ' = IF reqQ # <<>> THEN Tail(reqQ) ELSE reqQ
    /\ UNCHANGED <<svc, respQ, cli, hist, nonServiceVars>>

\* serve, self.dispatch(req).await and the match on its result.
ServeDispatch ==
    /\ srv.pc = "dispatch"
    /\ LET res == Service_dispatch(svc.a, srv.req)
       IN /\ svc' = [svc EXCEPT !.a = res.a]
          /\ srv' = Service_serve_match(srv.req, res.resp)
          /\ hist' = [hist EXCEPT
                         !.served = Append(@, [req |-> srv.req, resp |-> res.resp])]
    /\ UNCHANGED <<reqQ, respQ, cli, nonServiceVars>>

\* serve, transport.send(resp).await: Ok puts the response on the channel,
\* Err (the client is dropped) breaks the loop.
ServeSend ==
    /\ srv.pc = "send"
    /\ hist' = [hist EXCEPT !.pushed = Append(@, srv.resp)]
    /\ respQ' = IF cli.pc = "dropped"
                THEN respQ
                ELSE Append(respQ, ServiceMessage_response(srv.resp))
    /\ srv' = Service_serve_sent(cli.pc # "dropped")
    /\ UNCHANGED <<svc, reqQ, cli, nonServiceVars>>

\* tests::test_request_response: a fresh service serves a fresh client.
ServiceInit ==
    /\ CapIdle
    /\ RefIdle
    /\ UnsafeIdle
    /\ CodecIdle
    /\ DispatchIdle
    /\ StreamIdle
    /\ svc = [a |-> 0, alive |-> TRUE]
    /\ reqQ = <<>>
    /\ respQ = <<>>
    /\ cli = [pc |-> "idle", method |-> "none"]
    /\ srv = [pc |-> "top"]
    /\ hist = [calls |-> <<>>, results |-> <<>>, served |-> <<>>, pushed |-> <<>>]

ServiceNext ==
    \/ ClientCall
    \/ ClientRecv
    \/ ClientDrop
    \/ ServeAlive
    \/ ServeNext
    \/ ServeDispatch
    \/ ServeSend

SpecService == ServiceInit /\ [][ServiceNext]_vars

\* is_alive() of the served Service turns false: Service::is_alive is a
\* required method of the trait and an implementation decides what it returns.
ServiceStop ==
    /\ svc.alive
    /\ svc' = [svc EXCEPT !.alive = FALSE]
    /\ UNCHANGED <<reqQ, respQ, cli, srv, hist, nonServiceVars>>

\* The future of a client method is dropped while it awaits the response: the
\* call is abandoned and the client can make the next one.
ClientCancel ==
    /\ cli.pc = "awaiting"
    /\ cli' = [pc |-> "idle", method |-> "none"]
    /\ hist' = [hist EXCEPT !.results = Append(@, [ok |-> FALSE, value |-> 0])]
    /\ UNCHANGED <<svc, reqQ, respQ, srv, nonServiceVars>>

\* serve on any Service, also one whose is_alive() turns false, with a client
\* whose calls may be abandoned.
ServeLoopNext ==
    \/ ServiceNext
    \/ ServiceStop
    \/ ClientCancel

SpecServe == ServiceInit /\ [][ServeLoopNext]_vars

\* The Some results among the dispatched requests, in order.
RECURSIVE Somes(_)
Somes(served) ==
    IF served = <<>>
    THEN <<>>
    ELSE LET front == Somes(SubSeq(served, 1, Len(served) - 1))
             last_ == served[Len(served)]
         IN IF IsSome(last_.resp) THEN Append(front, Unwrap(last_.resp)) ELSE front

\* The requests of the dispatched ones, in order.
ServedRequests == [i \in 1 .. Len(hist.served) |-> hist.served[i].req]

\* C28: within one serve call the requests are dispatched one at a time in
\* arrival order (the dispatched requests are the first of the requests sent,
\* and at most one is between next and send), and the responses passed to the
\* transport are exactly the Some results of dispatch, in the order of their
\* requests; the one still to be sent is the last Some result.
C28_ServeInOrder ==
    /\ Len(hist.served) <= Len(hist.calls)
    /\ ServedRequests = SubSeq(hist.calls, 1, Len(hist.served))
    /\ srv.pc = "dispatch" =>
          /\ Len(hist.served) < Len(hist.calls)
          /\ srv.req = hist.calls[Len(hist.served) + 1]
    /\ IF srv.pc = "send"
       THEN Append(hist.pushed, srv.resp) = Somes(hist.served)
       ELSE hist.pushed = Somes(hist.served)

\* Three requests were dispatched, one of them without response, and the
\* responses of the two others were passed to the transport.
C28_Witness ==
    /\ Len(hist.served) = 3
    /\ \E i \in 1 .. 3 : hist.served[i].resp = None
    /\ Len(hist.pushed) = 2
    /\ hist.pushed[1] # hist.pushed[2]

\* The field a of a fresh service after the first n of the calls have run, one
\* after the other.
RECURSIVE StateAfter(_, _)
StateAfter(calls, n) ==
    IF n = 0
    THEN 0
    ELSE Service_method(StateAfter(calls, n - 1), calls[n]).a

\* C29: every call of a method with an output that the client has made on a
\* served service returned Ok(v), v being what the method returns on the state
\* of the service after all earlier calls, fire-and-forget ones included, have
\* taken effect in call order.
C29_CallsInOrder ==
    \A i \in 1 .. Len(hist.results) :
       hist.calls[i].method \in WithOutput =>
          hist.results[i] =
             [ok |-> TRUE,
              value |-> Service_method(StateAfter(hist.calls, i - 1),
                                       hist.calls[i]).out]

\* The client added, cleared without waiting for an answer, and read the value:
\* add returned its argument and get returned 0.
C29_Witness ==
    /\ Len(hist.results) = 3
    /\ hist.calls[1].method = "add"
    /\ hist.calls[2].method = "clear"
    /\ hist.calls[3].method = "get"
    /\ hist.results[1] = [ok |-> TRUE, value |-> hist.calls[1].arg]
    /\ hist.results[3] = [ok |-> TRUE, value |-> 0]

\* C30 as stated: for a and b built with new, a & b has the actions
\* a.actions & b.actions and the share a.share & b.share & a.actions & b.actions.
C30_ComponentwiseAnd ==
    (capOp = "bitand" /\ BuiltWithNew(capA) /\ BuiltWithNew(capB)) =>
       /\ capC.actions = BitAnd(capA.actions, capB.actions)
       /\ capC.share = BitAnd(BitAnd(capA.share, capB.share),
                              BitAnd(capA.actions, capB.actions))

\* C30 amended: for a and b built with new, a & b has the actions
\* a.share & b.actions and the share a.share & b.share & a.actions & b.actions.
C30_ShareMaskedAnd ==
    (capOp = "bitand" /\ BuiltWithNew(capA) /\ BuiltWithNew(capB)) =>
       /\ capC.actions = BitAnd(capA.share, capB.actions)
       /\ capC.share = BitAnd(BitAnd(capA.share, capB.share),
                              BitAnd(capA.actions, capB.actions))

\* An intersection that lacks an action both operands have, because the
\* receiver may not share it.
C30_Witness ==
    /\ capOp = "bitand"
    /\ BuiltWithNew(capA)
    /\ BuiltWithNew(capB)
    /\ capC.actions # BitAnd(capA.actions, capB.actions)
    /\ capC.share # 0

\* C37: whenever no dispatch call is in progress the counter is 0: every call
\* that incremented it has decremented it before returning.
C37_CounterBalanced ==
    AllIdle => count = 0

\* C38: the completion of a dispatch to a once handler removes only the
\* handler it invoked: a handler with another function, added under the id
\* while the future was running, is still registered after the removal step.
C38_RemovesOwnHandler ==
    [][\A t \in Tasks :
          ( /\ tasks[t].pc = "awaited"
            /\ tasks'[t] # tasks[t]
            /\ tasks[t].once
            /\ IsSome(handlers[tasks[t].id])
            /\ Unwrap(handlers[tasks[t].id]).func # tasks[t].func ) =>
             handlers'[tasks[t].id] = handlers[tasks[t].id]
      ]_vars

\* C40: Capability::is_subset is transitive: for all capabilities A, B, C with
\* any field values, if C.is_subset(B) and B.is_subset(A) then C.is_subset(A).
C40_IsSubsetTransitive ==
    ( /\ capOp = "is_subset"
      /\ capRes
      /\ Capability_is_subset(capC, capB) ) =>
        Capability_is_subset(capC, capA)

\* B is a subset of A and C of B, the three differ and C grants an action.
C40_Witness ==
    /\ capOp = "is_subset"
    /\ capRes
    /\ Capability_is_subset(capC, capB)
    /\ capA # capB
    /\ capB # capC
    /\ capC.actions # 0
    /\ capC.share # 0

\* C39: every certificate of a reference produced by new and sign carries a
\* capability whose share lies within its actions (is_valid): new and sign
\* reject an authorization whose capability has a share bit that is not an
\* actions bit.
C39_CertsCarryValidCapability ==
    IsSome(r) =>
        \A i \in 1 .. Len(Unwrap(r).certs) :
            Capability_is_valid(Unwrap(r).certs[i].auth.capability)

C31_NoPullWhenNotAlive ==
    [][(srv.pc = "next" /\ ~srv.alive) => Len(reqQ') >= Len(reqQ)]_vars

\* C32: serve terminates when the request stream ends and when pushing a
\* response fails, and once it has terminated no request is dispatched: the
\* service's state and the dispatched requests stay as they are.
C32_TerminatesOnEndAndFailedPush ==
    [][ /\ (srv.pc = "send" /\ cli.pc = "dropped" /\ srv' # srv) =>
               srv'.pc = "done"
        /\ (srv.pc = "next" /\ reqQ = <<>> /\ srv' # srv) =>
               srv'.pc = "done"
        /\ srv.pc = "done" =>
               /\ srv' = srv
               /\ svc'.a = svc.a
               /\ hist'.served = hist.served
               /\ hist'.pushed = hist.pushed
      ]_vars

\* serve has ended on a failed push while a request was still in the channel.
C32_Witness ==
    /\ srv.pc = "done"
    /\ srv.why = "push"
    /\ reqQ # <<>>
====
